---- MODULE Spec2Model ----
(***************************************************************************)
(* Speech Keyboard Backend: the balance ledger (models/Subscription.ts,    *)
(* services/SubscriptionService.ts), the transcription-correction pipeline *)
(* (controllers/transcriptController.ts, services/OpenAIService.ts) and    *)
(* user creation (controllers/userController.ts, models/User.ts).          *)
(*                                                                         *)
(* JavaScript null/undefined and an empty result.rows are the empty        *)
(* sequence <<>>; a present value v is <<v>>.  A date is a day number;     *)
(* month k is the days k*DaysPerMonth .. (k+1)*DaysPerMonth - 1.           *)
(***************************************************************************)
EXTENDS Integers, Sequences, FiniteSets, TLC

VARIABLES
    subs,         \* table subscriptions: user_id -> row (UNIQUE user_id)
    subs0,        \* the subscriptions table as it was before any call
    today,        \* the current date, new Date() / CURRENT_DATE
    svc,          \* SubscriptionService calls in flight: locals and position
    transcripts,  \* table transcripts, in insertion order
    req,          \* transcribeAndCorrect requests: locals and position
    users,        \* table users, in insertion order (id SERIAL)
    signup,       \* createUser requests: locals and position
    adapter,      \* a call of the OpenAI adapter: input, backend outcome, result
    crud,         \* the CRUD request of a client that sends one request
                  \* after another: the handler's locals and position
    transcripts_id_seq  \* the sequence behind transcripts.id (SERIAL)

vars == <<subs, subs0, today, svc, transcripts, req, users, signup, adapter,
          crud, transcripts_id_seq>>

-----------------------------------------------------------------------------
(* Bounds *)

NProcs == 2
DaysPerMonth == 2
MaxDay == 2
NReqs == 1
NSignups == 2
MaxTranscripts == 1

Procs == 1..NProcs
Reqs == 1..NReqs
Signups == 1..NSignups
Users == {1, 2}
LedgerUsers == {1}
Amounts == {4}
InitBalances == {3, 10}
RequiredMins == {3}

Null == <<>>

-----------------------------------------------------------------------------
(* models/Subscription.ts: single SQL statements on the subscriptions table *)

\* SELECT * FROM subscriptions WHERE user_id = $1; result.rows
findByUserId(tbl, userId) ==
    IF userId \in DOMAIN tbl THEN <<tbl[userId]>> ELSE <<>>

COALESCE(v, cur) == IF v = Null THEN cur ELSE v[1]

\* UPDATE subscriptions SET status = COALESCE($2, status), balance =
\* COALESCE($3, balance), expiry_date = COALESCE($4, expiry_date)
Subscription_update(tbl, userId, data) ==
    IF userId \in DOMAIN tbl
    THEN [tbl EXCEPT ![userId] =
            [status      |-> COALESCE(data.status, @.status),
             balance     |-> COALESCE(data.balance, @.balance),
             expiry_date |-> COALESCE(data.expiry_date, @.expiry_date)]]
    ELSE tbl

\* The debit as an UPDATE that leaves a balance below the amount alone
Subscription_deductBalance_floor(tbl, userId, minutes) ==
    IF userId \in DOMAIN tbl /\ tbl[userId].balance >= minutes
    THEN [tbl EXCEPT ![userId].balance = @ - minutes]
    ELSE tbl

\* UPDATE subscriptions SET balance = balance - $2 WHERE user_id = $1
Subscription_deductBalance(tbl, userId, minutes) ==
    IF userId \in DOMAIN tbl
    THEN [tbl EXCEPT ![userId].balance = @ - minutes]
    ELSE tbl

\* UPDATE subscriptions SET balance = balance + $2 WHERE user_id = $1
Subscription_addBalance(tbl, userId, minutes) ==
    IF userId \in DOMAIN tbl
    THEN [tbl EXCEPT ![userId].balance = @ + minutes]
    ELSE tbl

-----------------------------------------------------------------------------
(* services/SubscriptionService.ts *)

\* new Date(now.getFullYear(), now.getMonth() + 1, 1)
getNextMonthFirstDay(now) == ((now \div DaysPerMonth) + 1) * DaysPerMonth

premiumAllowance == 1000

monthlyAllowance(status) == IF status = "free" THEN 10 ELSE 1000

NoData == [status |-> Null, balance |-> Null, expiry_date |-> Null]

IdleCall == [pc |-> "idle", op |-> "none", userId |-> 0, minutes |-> 0,
             subscription |-> Null, data |-> NoData, result |-> Null]

\* A call enters a service method and issues its first query.  Slots are
\* taken in order.
Enter(p, op, userId, minutes, pc) ==
    /\ svc[p].pc = "idle"
    /\ \A q \in Procs : q < p => svc[q].pc # "idle"
    /\ svc' = [svc EXCEPT ![p] = [IdleCall EXCEPT !.pc = pc, !.op = op,
                                    !.userId = userId, !.minutes = minutes]]
    /\ UNCHANGED <<subs, subs0, today, transcripts, req, users, signup,
                 adapter, crud, transcripts_id_seq>>

\* await Subscription.findByUserId(userId): the SELECT runs
Find(p, op) ==
    /\ svc[p].pc = "find"
    /\ svc[p].op = op
    /\ svc' = [svc EXCEPT ![p].subscription = findByUserId(subs, svc[p].userId),
                          ![p].pc = "found"]
    /\ UNCHANGED <<subs, subs0, today, transcripts, req, users, signup,
                 adapter, crud, transcripts_id_seq>>

\* await Subscription.update(userId, data): the UPDATE runs
Update(p, op) ==
    /\ svc[p].pc = "update"
    /\ svc[p].op = op
    /\ subs' = Subscription_update(subs, svc[p].userId, svc[p].data)
    /\ svc' = [svc EXCEPT ![p].result = findByUserId(subs', svc[p].userId),
                          ![p].pc = "returned"]
    /\ UNCHANGED <<subs0, today, transcripts, req, users, signup, adapter,
                 crud, transcripts_id_seq>>

\* checkBalance comparing with > where the code has >=
checkBalance_next_strict(c) ==
    IF c.subscription = Null
    THEN [c EXCEPT !.pc = "threw"]
    ELSE [c EXCEPT !.pc = "returned",
            !.result = <<[hasBalance |-> c.subscription[1].balance > c.minutes,
                          currentBalance |-> c.subscription[1].balance]>>]

\* What checkBalance does with the row it read; minutes is requiredMins
checkBalance_next(c) ==
    IF c.subscription = Null
    THEN [c EXCEPT !.pc = "threw"]
    ELSE [c EXCEPT !.pc = "returned",
            !.result = <<[hasBalance |-> c.subscription[1].balance >= c.minutes,
                          currentBalance |-> c.subscription[1].balance]>>]

\* The SELECT of findByUserId runs and the method returns or throws
checkBalance(p) ==
    \/ \E u \in Users, m \in RequiredMins : Enter(p, "checkBalance", u, m, "find")
    \/ /\ svc[p].pc = "find"
       /\ svc[p].op = "checkBalance"
       /\ svc' = [svc EXCEPT ![p] = checkBalance_next(
                     [svc[p] EXCEPT !.subscription = findByUserId(subs, svc[p].userId)])]
       /\ UNCHANGED <<subs, subs0, today, transcripts, req, users, signup,
                 adapter, crud, transcripts_id_seq>>

\* resetMonthlyBalance comparing with < where the code has <=
resetMonthlyBalance_next_strict(c, now) ==
    IF c.subscription = Null
    THEN [c EXCEPT !.pc = "threw"]
    ELSE IF c.subscription[1].expiry_date < now
         THEN [c EXCEPT !.pc = "update",
                 !.data = [status      |-> Null,
                           balance     |-> <<c.subscription[1].balance
                                 + monthlyAllowance(c.subscription[1].status)>>,
                           expiry_date |-> <<getNextMonthFirstDay(now)>>]]
         ELSE [c EXCEPT !.pc = "returned"]

\* What resetMonthlyBalance does with the row it read, at date now
resetMonthlyBalance_next(c, now) ==
    IF c.subscription = Null
    THEN [c EXCEPT !.pc = "threw"]
    ELSE IF c.subscription[1].expiry_date <= now
         THEN [c EXCEPT !.pc = "update",
                 !.data = [status      |-> Null,
                           balance     |-> <<c.subscription[1].balance
                                 + monthlyAllowance(c.subscription[1].status)>>,
                           expiry_date |-> <<getNextMonthFirstDay(now)>>]]
         ELSE [c EXCEPT !.pc = "returned"]

\* resetMonthlyBalance writing the allowance as an increment of the stored
\* balance instead of the sum it computed from the row it read
resetMonthlyBalance_increment(p) ==
    \/ \E u \in Users : Enter(p, "resetMonthlyBalance", u, 0, "find")
    \/ Find(p, "resetMonthlyBalance")
    \/ /\ svc[p].pc = "found"
       /\ svc[p].op = "resetMonthlyBalance"
       /\ svc' = [svc EXCEPT ![p] = resetMonthlyBalance_next(svc[p], today)]
       /\ UNCHANGED <<subs, subs0, today, transcripts, req, users, signup,
                 adapter, crud, transcripts_id_seq>>
    \/ /\ svc[p].pc = "update"
       /\ svc[p].op = "resetMonthlyBalance"
       /\ subs' = Subscription_update(subs, svc[p].userId,
                     [svc[p].data EXCEPT !.balance =
                         <<subs[svc[p].userId].balance
                             + monthlyAllowance(svc[p].subscription[1].status)>>])
       /\ svc' = [svc EXCEPT ![p].result = findByUserId(subs', svc[p].userId),
                             ![p].pc = "returned"]
       /\ UNCHANGED <<subs0, today, transcripts, req, users, signup, adapter,
                 crud, transcripts_id_seq>>

resetMonthlyBalance(p) ==
    \/ \E u \in Users : Enter(p, "resetMonthlyBalance", u, 0, "find")
    \/ Find(p, "resetMonthlyBalance")
    \/ /\ svc[p].pc = "found"
       /\ svc[p].op = "resetMonthlyBalance"
       /\ svc' = [svc EXCEPT ![p] = resetMonthlyBalance_next(svc[p], today)]
       /\ UNCHANGED <<subs, subs0, today, transcripts, req, users, signup,
                 adapter, crud, transcripts_id_seq>>
    \/ Update(p, "resetMonthlyBalance")

\* deductBalance as a read of the row followed by a write of the new balance
deductBalance_readModifyWrite(p) ==
    \/ \E u \in Users, m \in Amounts :
          /\ svc[p].pc = "idle"
          /\ \A q \in Procs : q < p => svc[q].pc # "idle"
          /\ svc' = [svc EXCEPT ![p] =
                 [IdleCall EXCEPT !.pc = "query", !.op = "deductBalance",
                    !.userId = u, !.minutes = m,
                    !.subscription = findByUserId(subs, u)]]
          /\ UNCHANGED <<subs, subs0, today, transcripts, req, users, signup,
                 adapter, crud, transcripts_id_seq>>
    \/ /\ svc[p].pc = "query"
       /\ svc[p].op = "deductBalance"
       /\ subs' = IF svc[p].subscription = Null THEN subs
                  ELSE Subscription_update(subs, svc[p].userId,
                         [NoData EXCEPT !.balance =
                            <<svc[p].subscription[1].balance - svc[p].minutes>>])
       /\ LET result == findByUserId(subs', svc[p].userId)
          IN  svc' = [svc EXCEPT ![p].result = result,
                        ![p].pc = IF result = Null THEN "threw" ELSE "returned"]
       /\ UNCHANGED <<subs0, today, transcripts, req, users, signup, adapter,
                 crud, transcripts_id_seq>>

\* deductBalance returning whether or not the UPDATE found a row
deductBalance_noThrow(p) ==
    \/ \E u \in Users, m \in Amounts : Enter(p, "deductBalance", u, m, "query")
    \/ /\ svc[p].pc = "query"
       /\ svc[p].op = "deductBalance"
       /\ subs' = Subscription_deductBalance(subs, svc[p].userId, svc[p].minutes)
       /\ svc' = [svc EXCEPT ![p].result = findByUserId(subs', svc[p].userId),
                             ![p].pc = "returned"]
       /\ UNCHANGED <<subs0, today, transcripts, req, users, signup, adapter,
                 crud, transcripts_id_seq>>

deductBalance(p) ==
    \/ \E u \in Users, m \in Amounts : Enter(p, "deductBalance", u, m, "query")
    \/ /\ svc[p].pc = "query"
       /\ svc[p].op = "deductBalance"
       /\ subs' = Subscription_deductBalance(subs, svc[p].userId, svc[p].minutes)
       /\ LET result == findByUserId(subs', svc[p].userId)
          IN  svc' = [svc EXCEPT ![p].result = result,
                        ![p].pc = IF result = Null THEN "threw" ELSE "returned"]
       /\ UNCHANGED <<subs0, today, transcripts, req, users, signup, adapter,
                 crud, transcripts_id_seq>>

addCredits(p) ==
    \/ \E u \in Users, m \in Amounts : Enter(p, "addCredits", u, m, "query")
    \/ /\ svc[p].pc = "query"
       /\ svc[p].op = "addCredits"
       /\ subs' = Subscription_addBalance(subs, svc[p].userId, svc[p].minutes)
       /\ LET result == findByUserId(subs', svc[p].userId)
          IN  svc' = [svc EXCEPT ![p].result = result,
                        ![p].pc = IF result = Null THEN "threw" ELSE "returned"]
       /\ UNCHANGED <<subs0, today, transcripts, req, users, signup, adapter,
                 crud, transcripts_id_seq>>

\* upgradeToPremium resetting the balance to the allowance
upgradeToPremium_next_reset(c, now) ==
    IF c.subscription = Null
    THEN [c EXCEPT !.pc = "threw"]
    ELSE [c EXCEPT !.pc = "update",
            !.data = [status      |-> <<"premium">>,
                      balance     |-> <<premiumAllowance>>,
                      expiry_date |-> <<getNextMonthFirstDay(now)>>]]

\* upgradeToPremium granting the allowance only to a ledger that is not
\* premium yet
upgradeToPremium_next_onlyFromFree(c, now) ==
    IF c.subscription = Null
    THEN [c EXCEPT !.pc = "threw"]
    ELSE [c EXCEPT !.pc = "update",
            !.data = [status      |-> <<"premium">>,
                      balance     |-> IF c.subscription[1].status = "premium"
                                      THEN Null
                                      ELSE <<c.subscription[1].balance + premiumAllowance>>,
                      expiry_date |-> <<getNextMonthFirstDay(now)>>]]

upgradeToPremium_next(c, now) ==
    IF c.subscription = Null
    THEN [c EXCEPT !.pc = "threw"]
    ELSE [c EXCEPT !.pc = "update",
            !.data = [status      |-> <<"premium">>,
                      balance     |-> <<c.subscription[1].balance + premiumAllowance>>,
                      expiry_date |-> <<getNextMonthFirstDay(now)>>]]

upgradeToPremium(p) ==
    \/ \E u \in Users : Enter(p, "upgradeToPremium", u, 0, "find")
    \/ Find(p, "upgradeToPremium")
    \/ /\ svc[p].pc = "found"
       /\ svc[p].op = "upgradeToPremium"
       /\ svc' = [svc EXCEPT ![p] = upgradeToPremium_next(svc[p], today)]
       /\ UNCHANGED <<subs, subs0, today, transcripts, req, users, signup,
                 adapter, crud, transcripts_id_seq>>
    \/ Update(p, "upgradeToPremium")

\* downgradeToFree writing back the balance it read
downgradeToFree_next_balance(c, now) ==
    IF c.subscription = Null
    THEN [c EXCEPT !.pc = "threw"]
    ELSE [c EXCEPT !.pc = "update",
            !.data = [status      |-> <<"free">>,
                      balance     |-> <<c.subscription[1].balance>>,
                      expiry_date |-> <<getNextMonthFirstDay(now)>>]]

\* downgradeToFree changing the tier and leaving the expiry as it is
downgradeToFree_next_keepExpiry(c, now) ==
    IF c.subscription = Null
    THEN [c EXCEPT !.pc = "threw"]
    ELSE [c EXCEPT !.pc = "update",
            !.data = [status      |-> <<"free">>,
                      balance     |-> Null,
                      expiry_date |-> Null]]

downgradeToFree_next(c, now) ==
    IF c.subscription = Null
    THEN [c EXCEPT !.pc = "threw"]
    ELSE [c EXCEPT !.pc = "update",
            !.data = [status      |-> <<"free">>,
                      balance     |-> Null,
                      expiry_date |-> <<getNextMonthFirstDay(now)>>]]

downgradeToFree(p) ==
    \/ \E u \in Users : Enter(p, "downgradeToFree", u, 0, "find")
    \/ Find(p, "downgradeToFree")
    \/ /\ svc[p].pc = "found"
       /\ svc[p].op = "downgradeToFree"
       /\ svc' = [svc EXCEPT ![p] = downgradeToFree_next(svc[p], today)]
       /\ UNCHANGED <<subs, subs0, today, transcripts, req, users, signup,
                 adapter, crud, transcripts_id_seq>>
    \/ Update(p, "downgradeToFree")

\* The calendar advances by a day
Tick ==
    /\ today < MaxDay
    /\ today' = today + 1
    /\ UNCHANGED <<subs, subs0, svc, transcripts, req, users, signup,
                 adapter, crud, transcripts_id_seq>>

-----------------------------------------------------------------------------
(* services/OpenAIService.ts: the adapter behind both provider contracts *)

defaultPrompt ==
    "You are a writing assistant. When given a raw transcript, correct any grammatical errors, punctuation, and make the phrasing clear and professional without altering the original meaning. Maintain the speaker's tone and intent. Only return the corrected text, no additional commentary."

\* JavaScript's !v for an optional string
Falsy(v) == v = Null \/ v = <<"">>

\* v || w for an optional string v
OrElse(v, w) == IF Falsy(v) THEN w ELSE v[1]

\* Messages of backend errors, and those with 'timeout' in them
TimeoutMessages == {"Request timeout after 30000ms"}

\* error.message?.includes('timeout')
includesTimeout(message) == message # Null /\ message[1] \in TimeoutMessages

\* handleError looking at the error's code and message before its API
\* error body
handleError_codesFirst(error, operation) ==
    IF error.code = <<"insufficient_quota">>
    THEN "OpenAI API quota exceeded. Please check your billing."
    ELSE IF error.code = <<"rate_limit_exceeded">>
    THEN "OpenAI API rate limit exceeded. Please try again later."
    ELSE IF error.code = <<"invalid_api_key">>
    THEN "Invalid OpenAI API key configuration."
    ELSE IF includesTimeout(error.message)
    THEN operation \o " request timed out. Please try again."
    ELSE IF /\ error.response # Null
            /\ error.response[1].error # Null
    THEN OrElse(error.response[1].error[1].message, "OpenAI API error")
    ELSE OrElse(error.message, "Unknown " \o operation \o " error occurred.")

\* handleError looking for 'timeout' in the message before the error codes
handleError_timeoutFirst(error, operation) ==
    IF /\ error.response # Null
       /\ error.response[1].error # Null
    THEN OrElse(error.response[1].error[1].message, "OpenAI API error")
    ELSE IF includesTimeout(error.message)
    THEN operation \o " request timed out. Please try again."
    ELSE IF error.code = <<"insufficient_quota">>
    THEN "OpenAI API quota exceeded. Please check your billing."
    ELSE IF error.code = <<"rate_limit_exceeded">>
    THEN "OpenAI API rate limit exceeded. Please try again later."
    ELSE IF error.code = <<"invalid_api_key">>
    THEN "Invalid OpenAI API key configuration."
    ELSE OrElse(error.message, "Unknown " \o operation \o " error occurred.")

handleError(error, operation) ==
    IF /\ error.response # Null
       /\ error.response[1].error # Null
    THEN OrElse(error.response[1].error[1].message, "OpenAI API error")
    ELSE IF error.code = <<"insufficient_quota">>
    THEN "OpenAI API quota exceeded. Please check your billing."
    ELSE IF error.code = <<"rate_limit_exceeded">>
    THEN "OpenAI API rate limit exceeded. Please try again later."
    ELSE IF error.code = <<"invalid_api_key">>
    THEN "Invalid OpenAI API key configuration."
    ELSE IF includesTimeout(error.message)
    THEN operation \o " request timed out. Please try again."
    ELSE OrElse(error.message, "Unknown " \o operation \o " error occurred.")

\* What openai.audio.transcriptions.create did: a transcription, or an error
\* it rejected with
NoError == [response |-> Null, code |-> Null, message |-> Null]

transcribe(outcome) ==
    IF outcome.error = Null
    THEN [success |-> TRUE, transcript |-> <<outcome.text>>,
          duration |-> <<outcome.duration>>, error |-> Null]
    ELSE [success |-> FALSE, transcript |-> Null, duration |-> Null,
          error |-> <<handleError(outcome.error[1], "transcription")>>]

\* JSON.parse(content) on the replies of the backend: <<object>>, or Null
\* where it throws a SyntaxError
JSON_parse(content) ==
    CASE content = "{\"corrected\":\"So, today we are going to talk about\"}"
            -> <<[corrected |-> <<"So, today we are going to talk about">>]>>
      [] content = "{\"corrected\":\"\"}" -> <<[corrected |-> <<"">>]>>
      [] content = "{}" -> <<[corrected |-> Null]>>
      [] OTHER -> Null

\* The runtimes the service runs on: the text of JSON.parse's SyntaxError
\* changed with V8 between Node 18 and Node 20
Runtimes == {"node18", "node20"}

\* error.message of the SyntaxError JSON.parse throws on the text reply
SyntaxErrorMessage(runtime) ==
    IF runtime = "node18"
    THEN "Unexpected token S in JSON at position 0"
    ELSE "Unexpected token 'S', \"So, today \"... is not valid JSON"

\* The error processText's catch block receives, if any, for a backend
\* outcome: the rejection, the Error thrown for no content, or the
\* SyntaxError of JSON.parse
processText_caught(outcome, runtime) ==
    IF outcome.error # Null THEN outcome.error
    ELSE IF Falsy(outcome.content)
    THEN <<[NoError EXCEPT !.message = <<"No response content from OpenAI">>]>>
    ELSE IF JSON_parse(outcome.content[1]) = Null
    THEN <<[NoError EXCEPT !.message = <<SyntaxErrorMessage(runtime)>>]>>
    ELSE Null

\* processText reporting the caller's guidance even when there is none
processText_userPrompt(input, outcome, runtime) ==
    LET userPrompt == OrElse(input.prompt, "")
        caught == processText_caught(outcome, runtime)
    IN  IF caught = Null
        THEN [success |-> TRUE,
              processedText |->
                  <<OrElse(JSON_parse(outcome.content[1])[1].corrected, input.rawText)>>,
              originalText |-> input.rawText,
              promptUsed |-> <<userPrompt>>,
              error |-> Null]
        ELSE [success |-> FALSE, processedText |-> Null,
              originalText |-> input.rawText, promptUsed |-> Null,
              error |-> <<handleError(caught[1], "text processing")>>]

\* processText returning the corrected field as it is, empty or absent
processText_noFallback(input, outcome, runtime) ==
    LET userPrompt == OrElse(input.prompt, "")
        caught == processText_caught(outcome, runtime)
    IN  IF caught = Null
        THEN [success |-> TRUE,
              processedText |-> JSON_parse(outcome.content[1])[1].corrected,
              originalText |-> input.rawText,
              promptUsed |-> <<OrElse(<<userPrompt>>, defaultPrompt)>>,
              error |-> Null]
        ELSE [success |-> FALSE, processedText |-> Null,
              originalText |-> input.rawText, promptUsed |-> Null,
              error |-> <<handleError(caught[1], "text processing")>>]

\* processText answering a reply it cannot use with the raw text as a
\* success
processText_replyFallback(input, outcome, runtime) ==
    LET userPrompt == OrElse(input.prompt, "")
        caught == processText_caught(outcome, runtime)
    IN  IF caught = Null
        THEN [success |-> TRUE,
              processedText |->
                  <<OrElse(JSON_parse(outcome.content[1])[1].corrected, input.rawText)>>,
              originalText |-> input.rawText,
              promptUsed |-> <<OrElse(<<userPrompt>>, defaultPrompt)>>,
              error |-> Null]
        ELSE IF outcome.error = Null
        THEN [success |-> TRUE, processedText |-> <<input.rawText>>,
              originalText |-> input.rawText,
              promptUsed |-> <<OrElse(<<userPrompt>>, defaultPrompt)>>,
              error |-> Null]
        ELSE [success |-> FALSE, processedText |-> Null,
              originalText |-> input.rawText, promptUsed |-> Null,
              error |-> <<handleError(caught[1], "text processing")>>]

processText(input, outcome, runtime) ==
    LET userPrompt == OrElse(input.prompt, "")
        caught == processText_caught(outcome, runtime)
    IN  IF caught = Null
        THEN [success |-> TRUE,
              processedText |->
                  <<OrElse(JSON_parse(outcome.content[1])[1].corrected, input.rawText)>>,
              originalText |-> input.rawText,
              promptUsed |-> <<OrElse(<<userPrompt>>, defaultPrompt)>>,
              error |-> Null]
        ELSE [success |-> FALSE, processedText |-> Null,
              originalText |-> input.rawText, promptUsed |-> Null,
              error |-> <<handleError(caught[1], "text processing")>>]

\* The errors the backend calls reject with: objects with or without a
\* structured API error body, a code and a message
ErrorBodies ==
    {Null,
     <<[error |-> Null]>>,
     <<[error |-> <<[message |-> <<"Rate limit exceeded">>,
                     code |-> <<"rate_limit_exceeded">>]>>]>>,
     <<[error |-> <<[message |-> Null, code |-> <<"server_error">>]>>]>>}
ErrorCodes ==
    {Null, <<"insufficient_quota">>, <<"rate_limit_exceeded">>,
     <<"invalid_api_key">>, <<"server_error">>}
ErrorMessages ==
    {Null, <<"">>, <<"Request timeout after 30000ms">>,
     <<"Connection reset by peer">>}
AllBackendErrors ==
    [response : ErrorBodies, code : ErrorCodes, message : ErrorMessages]

NoCall == [pc |-> "idle", op |-> "none", input |-> Null, outcome |-> Null,
           result |-> Null]

\* transcribe is called and awaits openai.audio.transcriptions.create
TranscribeCalled ==
    /\ adapter.pc = "idle"
    /\ \E audio \in {[audioBuffer |-> "mock audio data", filename |-> "test.wav",
                        mimeType |-> "audio/wav"]} :
          adapter' = [NoCall EXCEPT !.pc = "called", !.op = "transcription",
                                    !.input = <<audio>>]
    /\ UNCHANGED <<subs, subs0, today, svc, transcripts, req, users,
                 signup, crud, transcripts_id_seq>>

\* The backend call settles and transcribe returns
TranscribeSettled ==
    /\ adapter.pc = "called"
    /\ adapter.op = "transcription"
    /\ \E outcome \in [text : {"um so today we're gonna talk about"},
                        duration : {5}, error : {Null}]
                       \cup [text : {""}, duration : {0},
                             error : {<<e>> : e \in AllBackendErrors}] :
          adapter' = [adapter EXCEPT !.pc = "settled", !.outcome = <<outcome>>,
                                     !.result = <<transcribe(outcome)>>]
    /\ UNCHANGED <<subs, subs0, today, svc, transcripts, req, users,
                 signup, crud, transcripts_id_seq>>

\* processText is called and awaits openai.chat.completions.create
ProcessTextCalled ==
    /\ adapter.pc = "idle"
    /\ \E rawText \in {"um so today we're gonna talk about"},
          prompt \in {Null, <<"">>, <<"Make this sound professional">>} :
          adapter' = [NoCall EXCEPT !.pc = "called", !.op = "text processing",
                         !.input = <<[rawText |-> rawText, prompt |-> prompt]>>]
    /\ UNCHANGED <<subs, subs0, today, svc, transcripts, req, users,
                 signup, crud, transcripts_id_seq>>

\* The backend call settles and processText returns
ProcessTextSettled ==
    /\ adapter.pc = "called"
    /\ adapter.op = "text processing"
    /\ \E outcome \in
            [content : {Null, <<"">>,
                        <<"{\"corrected\":\"So, today we are going to talk about\"}">>,
                        <<"{\"corrected\":\"\"}">>, <<"{}">>,
                        <<"So, today we are going to talk about">>},
             error : {Null}]
            \cup [content : {Null}, error : {<<e>> : e \in AllBackendErrors}],
          runtime \in Runtimes :
          adapter' = [adapter EXCEPT !.pc = "settled", !.outcome = <<outcome>>,
                         !.result = <<processText(adapter.input[1], outcome,
                                                  runtime)>>]
    /\ UNCHANGED <<subs, subs0, today, svc, transcripts, req, users,
                 signup, crud, transcripts_id_seq>>

-----------------------------------------------------------------------------
(* models/Transcript.ts *)

\* INSERT INTO transcripts (...) VALUES (...) RETURNING *; id SERIAL takes
\* nextval, the next value of the table's sequence
Transcript_create(tbl, nextval, data) ==
    Append(tbl, [id |-> nextval, user_id |-> data.user_id[1],
                 audio_url |-> data.audio_url,
                 duration_secs |-> data.duration_secs,
                 text_raw |-> data.text_raw, text_final |-> data.text_final,
                 prompt_used |-> data.prompt_used])

\* COALESCE($n, column) over a nullable column
COALESCE_column(v, cur) == IF v = Null THEN cur ELSE v

\* UPDATE transcripts SET audio_url = COALESCE($2, audio_url), ... ,
\* text_raw = COALESCE($4, text_raw), ... WHERE id = $1
Transcript_update(tbl, id, data) ==
    [i \in 1..Len(tbl) |->
        IF tbl[i].id = id
        THEN [tbl[i] EXCEPT
                !.audio_url = COALESCE_column(data.audio_url, @),
                !.duration_secs = COALESCE_column(data.duration_secs, @),
                !.text_raw = COALESCE_column(data.text_raw, @),
                !.text_final = COALESCE_column(data.text_final, @),
                !.prompt_used = COALESCE_column(data.prompt_used, @)]
        ELSE tbl[i]]

\* RETURNING *: result.rows[0] || null
Transcript_returning(tbl, id) ==
    IF \E i \in 1..Len(tbl) : tbl[i].id = id
    THEN <<tbl[CHOOSE i \in 1..Len(tbl) : tbl[i].id = id]>>
    ELSE Null

\* SELECT * FROM transcripts WHERE id = $1: result.rows[0] || null
Transcript_findById(tbl, id) ==
    LET rows == SelectSeq(tbl, LAMBDA row : row.id = id) IN
    IF rows = <<>> THEN Null ELSE <<rows[1]>>

\* DELETE FROM transcripts WHERE id = $1: the table without the row
Transcript_delete(tbl, id) == SelectSeq(tbl, LAMBDA row : row.id # id)

-----------------------------------------------------------------------------
(* controllers/transcriptController.ts: transcribeAndCorrect *)

\* parseInt(user_id) of the request bodies' user ids; Null is NaN
parseInt(str) ==
    CASE str = "1" -> <<1>>
      [] str = "2" -> <<2>>
      [] OTHER -> Null

NoRequest ==
    [pc |-> "idle", file |-> Null, body |-> [prompt |-> Null, user_id |-> Null],
     transcriptionResult |-> Null, correctionResult |-> Null,
     transcriptData |-> Null, savedTranscript |-> Null, caught |-> Null,
     calls |-> <<>>, responses |-> <<>>]

\* res.status(status).json(body)
Send(c, status, body) ==
    [c EXCEPT !.pc = "sent",
              !.responses = Append(@, [status |-> status, body |-> body])]

\* The handler validating the user id before the audio file
transcribeAndCorrect_entry_userIdFirst(c, file, body) ==
    LET c1 == [c EXCEPT !.file = file, !.body = body] IN
    IF Falsy(body.user_id)
    THEN Send(c1, 400, [success |-> FALSE, message |-> "User ID is required"])
    ELSE IF file = Null
    THEN Send(c1, 400, [success |-> FALSE, message |-> "No audio file provided"])
    ELSE [c1 EXCEPT !.pc = "transcribe",
            !.calls = Append(@, [fn |-> "transcribe",
                                 audioBuffer |-> file[1].buffer,
                                 filename |-> file[1].originalname,
                                 mimeType |-> file[1].mimetype])]

\* The handler from its entry to its first await
transcribeAndCorrect_entry(c, file, body) ==
    LET c1 == [c EXCEPT !.file = file, !.body = body] IN
    IF file = Null
    THEN Send(c1, 400, [success |-> FALSE, message |-> "No audio file provided"])
    ELSE IF Falsy(body.user_id)
    THEN Send(c1, 400, [success |-> FALSE, message |-> "User ID is required"])
    ELSE [c1 EXCEPT !.pc = "transcribe",
            !.calls = Append(@, [fn |-> "transcribe",
                                 audioBuffer |-> file[1].buffer,
                                 filename |-> file[1].originalname,
                                 mimeType |-> file[1].mimetype])]

\* The handler going on to the rewriter after a failed transcription
transcribeAndCorrect_transcribed_noStop(c, transcriptionResult) ==
    [c EXCEPT !.transcriptionResult = <<transcriptionResult>>,
              !.pc = "processText",
              !.calls = Append(@, [fn |-> "processText",
                                   rawText |-> OrElse(transcriptionResult.transcript, ""),
                                   prompt |-> c.body.prompt])]

\* The handler calling transcribe a second time after a failure
transcribeAndCorrect_transcribed_retry(c, transcriptionResult) ==
    LET c1 == [c EXCEPT !.transcriptionResult = <<transcriptionResult>>] IN
    IF ~transcriptionResult.success /\ Len(c.calls) < 2
    THEN [c EXCEPT !.calls = Append(@, c.calls[1])]
    ELSE IF ~transcriptionResult.success
    THEN Send(c1, 422, [success |-> FALSE, message |-> "Transcription failed",
                        error |-> transcriptionResult.error])
    ELSE [c1 EXCEPT !.pc = "processText",
            !.calls = Append(@, [fn |-> "processText",
                                 rawText |-> transcriptionResult.transcript[1],
                                 prompt |-> c.body.prompt])]

\* From the transcription result to the next await or the response
transcribeAndCorrect_transcribed(c, transcriptionResult) ==
    LET c1 == [c EXCEPT !.transcriptionResult = <<transcriptionResult>>] IN
    IF ~transcriptionResult.success
    THEN Send(c1, 422, [success |-> FALSE, message |-> "Transcription failed",
                        error |-> transcriptionResult.error])
    ELSE [c1 EXCEPT !.pc = "processText",
            !.calls = Append(@, [fn |-> "processText",
                                 rawText |-> transcriptionResult.transcript[1],
                                 prompt |-> c.body.prompt])]

\* The handler saving the rewriter's text whether or not the rewrite succeeded
transcribeAndCorrect_corrected_noFallback(c, correctionResult) ==
    LET tr == c.transcriptionResult[1]
        transcriptData ==
          [user_id |-> parseInt(c.body.user_id[1]),
           audio_url |-> Null,
           duration_secs |-> tr.duration,
           text_raw |-> tr.transcript,
           text_final |-> correctionResult.processedText,
           prompt_used |-> IF correctionResult.success
                           THEN correctionResult.promptUsed
                           ELSE <<OrElse(c.body.prompt, "default")>>]
    IN  [c EXCEPT !.correctionResult = <<correctionResult>>,
                  !.transcriptData = <<transcriptData>>,
                  !.pc = "create",
                  !.calls = Append(@, [fn |-> "Transcript.create",
                                       data |-> transcriptData])]

\* The handler answering a failed rewrite without saving a Transcript
transcribeAndCorrect_corrected_noSaveOnFailure(c, correctionResult) ==
    LET tr == c.transcriptionResult[1]
        transcriptData ==
          [user_id |-> parseInt(c.body.user_id[1]),
           audio_url |-> Null,
           duration_secs |-> tr.duration,
           text_raw |-> tr.transcript,
           text_final |-> correctionResult.processedText,
           prompt_used |-> correctionResult.promptUsed]
    IN  IF ~correctionResult.success
        THEN Send([c EXCEPT !.correctionResult = <<correctionResult>>], 200,
               [success |-> TRUE,
                data |-> [transcriptId |-> Null,
                          rawTranscript |-> tr.transcript,
                          finalText |-> tr.transcript,
                          duration |-> tr.duration,
                          correctionFailed |-> TRUE,
                          correctionError |-> correctionResult.error]])
        ELSE [c EXCEPT !.correctionResult = <<correctionResult>>,
                       !.transcriptData = <<transcriptData>>,
                       !.pc = "create",
                       !.calls = Append(@, [fn |-> "Transcript.create",
                                            data |-> transcriptData])]

\* The handler debiting the ledger for the transcribed minutes before it
\* saves the Transcript
transcribeAndCorrect_corrected_debit(c, correctionResult) ==
    LET tr == c.transcriptionResult[1]
        transcriptData ==
          [user_id |-> parseInt(c.body.user_id[1]),
           audio_url |-> Null,
           duration_secs |-> tr.duration,
           text_raw |-> tr.transcript,
           text_final |-> IF correctionResult.success
                          THEN correctionResult.processedText
                          ELSE tr.transcript,
           prompt_used |-> IF correctionResult.success
                           THEN correctionResult.promptUsed
                           ELSE <<OrElse(c.body.prompt, "default")>>]
    IN  [c EXCEPT !.correctionResult = <<correctionResult>>,
                  !.transcriptData = <<transcriptData>>,
                  !.pc = "create",
                  !.calls = Append(Append(@, [fn |-> "deductBalance",
                                              userId |-> transcriptData.user_id,
                                              minutes |-> tr.duration]),
                                   [fn |-> "Transcript.create",
                                    data |-> transcriptData])]

\* The handler recording the adapter's default prompt when the rewrite failed
\* and the caller gave no guidance
transcribeAndCorrect_corrected_adapterPrompt(c, correctionResult) ==
    LET tr == c.transcriptionResult[1]
        transcriptData ==
          [user_id |-> parseInt(c.body.user_id[1]),
           audio_url |-> Null,
           duration_secs |-> tr.duration,
           text_raw |-> tr.transcript,
           text_final |-> IF correctionResult.success
                          THEN correctionResult.processedText
                          ELSE tr.transcript,
           prompt_used |-> IF correctionResult.success
                           THEN correctionResult.promptUsed
                           ELSE <<OrElse(c.body.prompt, defaultPrompt)>>]
    IN  [c EXCEPT !.correctionResult = <<correctionResult>>,
                  !.transcriptData = <<transcriptData>>,
                  !.pc = "create",
                  !.calls = Append(@, [fn |-> "Transcript.create",
                                       data |-> transcriptData])]

\* The handler answering the caller before it awaits the save
transcribeAndCorrect_corrected_respondFirst(c, correctionResult) ==
    LET tr == c.transcriptionResult[1]
        transcriptData ==
          [user_id |-> parseInt(c.body.user_id[1]),
           audio_url |-> Null,
           duration_secs |-> tr.duration,
           text_raw |-> tr.transcript,
           text_final |-> IF correctionResult.success
                          THEN correctionResult.processedText
                          ELSE tr.transcript,
           prompt_used |-> IF correctionResult.success
                           THEN correctionResult.promptUsed
                           ELSE <<OrElse(c.body.prompt, "default")>>]
        c1 == Send(c, 200,
               [success |-> TRUE,
                data |-> [transcriptId |-> Null,
                          rawTranscript |-> tr.transcript,
                          finalText |-> transcriptData.text_final,
                          duration |-> tr.duration]])
    IN  [c1 EXCEPT !.correctionResult = <<correctionResult>>,
                   !.transcriptData = <<transcriptData>>,
                   !.pc = "create",
                   !.calls = Append(@, [fn |-> "Transcript.create",
                                        data |-> transcriptData])]

\* From the correction result to the call of Transcript.create
transcribeAndCorrect_corrected(c, correctionResult) ==
    LET tr == c.transcriptionResult[1]
        transcriptData ==
          [user_id |-> parseInt(c.body.user_id[1]),
           audio_url |-> Null,
           duration_secs |-> tr.duration,
           text_raw |-> tr.transcript,
           text_final |-> IF correctionResult.success
                          THEN correctionResult.processedText
                          ELSE tr.transcript,
           prompt_used |-> IF correctionResult.success
                           THEN correctionResult.promptUsed
                           ELSE <<OrElse(c.body.prompt, "default")>>]
    IN  [c EXCEPT !.correctionResult = <<correctionResult>>,
                  !.transcriptData = <<transcriptData>>,
                  !.pc = "create",
                  !.calls = Append(@, [fn |-> "Transcript.create",
                                       data |-> transcriptData])]

\* savedTranscript?.id
idOf(savedTranscript) ==
    IF savedTranscript = Null THEN Null ELSE <<savedTranscript[1].id>>

\* The handler answering a failed rewrite with a failure response
transcribeAndCorrect_saved_failOnCorrection(c, savedTranscript) ==
    LET tr == c.transcriptionResult[1]
        cr == c.correctionResult[1]
        c1 == [c EXCEPT !.savedTranscript = savedTranscript]
    IN  IF ~cr.success
        THEN Send(c1, 422, [success |-> FALSE, message |-> "Correction failed",
                            error |-> cr.error])
        ELSE Send(c1, 200,
               [success |-> TRUE,
                data |-> [transcriptId |-> idOf(savedTranscript),
                          rawTranscript |-> tr.transcript,
                          finalText |-> cr.processedText,
                          duration |-> tr.duration,
                          promptUsed |-> cr.promptUsed]])

\* The handler letting a failed save reach its catch-all
transcribeAndCorrect_saved_failOnSave(c, savedTranscript) ==
    LET tr == c.transcriptionResult[1]
        cr == c.correctionResult[1]
        c1 == [c EXCEPT !.savedTranscript = savedTranscript]
    IN  IF savedTranscript = Null
        THEN Send(c1, 500, [success |-> FALSE,
                            message |-> "Internal server error during processing",
                            error |-> <<"Something went wrong">>])
        ELSE IF ~cr.success
        THEN Send(c1, 200,
               [success |-> TRUE,
                data |-> [transcriptId |-> idOf(savedTranscript),
                          rawTranscript |-> tr.transcript,
                          finalText |-> tr.transcript,
                          duration |-> tr.duration,
                          correctionFailed |-> TRUE,
                          correctionError |-> cr.error]])
        ELSE Send(c1, 200,
               [success |-> TRUE,
                data |-> [transcriptId |-> idOf(savedTranscript),
                          rawTranscript |-> tr.transcript,
                          finalText |-> cr.processedText,
                          duration |-> tr.duration,
                          promptUsed |-> cr.promptUsed]])

\* From the end of the save (savedTranscript is Null when it threw) to the
\* response
transcribeAndCorrect_saved(c, savedTranscript) ==
    LET tr == c.transcriptionResult[1]
        cr == c.correctionResult[1]
        c1 == [c EXCEPT !.savedTranscript = savedTranscript]
    IN  IF ~cr.success
        THEN Send(c1, 200,
               [success |-> TRUE,
                data |-> [transcriptId |-> idOf(savedTranscript),
                          rawTranscript |-> tr.transcript,
                          finalText |-> tr.transcript,
                          duration |-> tr.duration,
                          correctionFailed |-> TRUE,
                          correctionError |-> cr.error]])
        ELSE Send(c1, 200,
               [success |-> TRUE,
                data |-> [transcriptId |-> idOf(savedTranscript),
                          rawTranscript |-> tr.transcript,
                          finalText |-> cr.processedText,
                          duration |-> tr.duration,
                          promptUsed |-> cr.promptUsed]])

\* The handler answering an exception of a stage as a failed transcription
transcribeAndCorrect_catch_asStageFailure(c, error, NODE_ENV) ==
    Send([c EXCEPT !.caught = <<error>>], 422,
         [success |-> FALSE, message |-> "Transcription failed",
          error |-> <<error.message>>])

\* catch (error): an awaited stage rejected instead of returning a result
transcribeAndCorrect_catch(c, error, NODE_ENV) ==
    Send([c EXCEPT !.caught = <<error>>], 500,
         [success |-> FALSE,
          message |-> "Internal server error during processing",
          error |-> IF NODE_ENV = "development"
                    THEN <<error.message>>
                    ELSE <<"Something went wrong">>])

\* Inputs of the requests and outcomes of the backend calls
Files == {[buffer |-> "mock audio data", originalname |-> "test.wav",
           mimetype |-> "audio/wav"]}
Prompts == {Null, <<"">>, <<"Make this sound professional">>}
UserIds == {Null, <<"1">>, <<"one">>}
RawTexts == {"um so today we're gonna talk about"}
BackendErrors ==
    {[NoError EXCEPT !.code = <<"insufficient_quota">>,
                     !.message = <<"You exceeded your current quota">>],
     [NoError EXCEPT !.message = <<"Request timeout after 30000ms">>]}
TranscriptionOutcomes ==
    [text : RawTexts, duration : {5}, error : {Null}]
    \cup [text : {""}, duration : {0}, error : {<<e>> : e \in BackendErrors}]
Contents ==
    {Null, <<"{\"corrected\":\"So, today we are going to talk about\"}">>,
     <<"{}">>, <<"So, today we are going to talk about">>}
CompletionOutcomes ==
    [content : Contents, error : {Null}]
    \cup [content : {Null}, error : {<<e>> : e \in BackendErrors}]

Receive(r) ==
    /\ req[r].pc = "idle"
    /\ \A q \in Reqs : q < r => req[q].pc # "idle"
    /\ \E file \in {Null} \cup {<<f>> : f \in Files},
          prompt \in Prompts, user_id \in UserIds :
          req' = [req EXCEPT ![r] = transcribeAndCorrect_entry(req[r], file,
                                      [prompt |-> prompt, user_id |-> user_id])]
    /\ UNCHANGED <<subs, subs0, today, svc, transcripts, users, signup,
                 adapter, crud, transcripts_id_seq>>

Transcribed(r) ==
    /\ req[r].pc = "transcribe"
    /\ \E outcome \in TranscriptionOutcomes :
          req' = [req EXCEPT ![r] =
                    transcribeAndCorrect_transcribed(req[r], transcribe(outcome))]
    /\ UNCHANGED <<subs, subs0, today, svc, transcripts, users, signup,
                 adapter, crud, transcripts_id_seq>>

Corrected(r) ==
    /\ req[r].pc = "processText"
    /\ \E outcome \in CompletionOutcomes, runtime \in Runtimes :
          req' = [req EXCEPT ![r] =
                    transcribeAndCorrect_corrected(req[r],
                       processText([rawText |-> req[r].transcriptionResult[1].transcript[1],
                                    prompt |-> req[r].body.prompt], outcome,
                                   runtime))]
    /\ UNCHANGED <<subs, subs0, today, svc, transcripts, users, signup,
                 adapter, crud, transcripts_id_seq>>

\* Transcript.create inserts the row and returns it; user_id is NOT NULL
\* and REFERENCES users(id)
Saved(r) ==
    /\ req[r].pc = "create"
    /\ req[r].transcriptData[1].user_id # Null
    /\ \E i \in 1..Len(users) : users[i].id = req[r].transcriptData[1].user_id[1]
    /\ transcripts_id_seq' = transcripts_id_seq + 1
    /\ transcripts' = Transcript_create(transcripts, transcripts_id_seq',
                                        req[r].transcriptData[1])
    /\ req' = [req EXCEPT ![r] = transcribeAndCorrect_saved(req[r],
                                    <<transcripts'[Len(transcripts')]>>)]
    /\ UNCHANGED <<subs, subs0, today, svc, users, signup, adapter, crud>>

\* Transcript.create throws: the query failed.  A statement that fails
\* after the default of id was computed has taken a value of the sequence,
\* one that never reached the server has not.
SaveFailed(r) ==
    /\ req[r].pc = "create"
    /\ req' = [req EXCEPT ![r] = transcribeAndCorrect_saved(req[r], Null)]
    /\ transcripts_id_seq' \in {transcripts_id_seq, transcripts_id_seq + 1}
    /\ UNCHANGED <<subs, subs0, today, svc, transcripts, users, signup,
                 adapter, crud>>

\* The provider behind transcribe or processText rejects: the injected
\* implementation threw instead of returning a result
ThrownErrors == {[message |-> "Provider crashed"]}
Environments == {"development", "production"}

StageThrew(r) ==
    /\ req[r].pc \in {"transcribe", "processText"}
    /\ \E error \in ThrownErrors, NODE_ENV \in Environments :
          req' = [req EXCEPT ![r] = transcribeAndCorrect_catch(req[r], error, NODE_ENV)]
    /\ UNCHANGED <<subs, subs0, today, svc, transcripts, users, signup,
                 adapter, crud, transcripts_id_seq>>

transcribeAndCorrect(r) ==
    \/ Receive(r)
    \/ Transcribed(r)
    \/ Corrected(r)
    \/ Saved(r)
    \/ SaveFailed(r)
    \/ StageThrew(r)

-----------------------------------------------------------------------------
(* controllers/transcriptController.ts: updateTranscript *)

\* No CRUD request yet
NoCrud == [pc |-> "idle", responses |-> <<>>]

NoUpdate ==
    [pc |-> "idle", id |-> "",
     body |-> [audio_url |-> Null, duration_secs |-> Null, text_raw |-> Null,
               text_final |-> Null, prompt_used |-> Null],
     updatedTranscript |-> Null, responses |-> <<>>]

\* From the entry of the handler to the call of Transcript.update
updateTranscript_entry(c, id, body) ==
    LET c1 == [c EXCEPT !.id = id, !.body = body] IN
    IF id = "" \/ parseInt(id) = Null
    THEN Send(c1, 400, [success |-> FALSE,
                        message |-> "Invalid transcript ID provided"])
    ELSE [c1 EXCEPT !.pc = "update"]

\* From the result of Transcript.update to the response
updateTranscript_updated(c, updatedTranscript) ==
    LET c1 == [c EXCEPT !.updatedTranscript = updatedTranscript] IN
    IF updatedTranscript = Null
    THEN Send(c1, 404, [success |-> FALSE, message |-> "Transcript not found"])
    ELSE Send(c1, 200, [success |-> TRUE,
                        message |-> "Transcript updated successfully",
                        data |-> updatedTranscript])

\* catch (error): Transcript.update threw
updateTranscript_catch(c, error, NODE_ENV) ==
    Send(c, 500, [success |-> FALSE, message |-> "Failed to update transcript",
                  error |-> IF NODE_ENV = "development"
                            THEN <<error.message>>
                            ELSE <<"Internal server error">>])

\* The errors the query of Transcript.update rejects with
DatabaseErrors == {[message |-> "Connection terminated unexpectedly"]}

TranscriptIds == {"1", "2", "abc"}
UpdateBodies ==
    [audio_url : {Null}, duration_secs : {Null},
     text_raw : {Null, <<"today we discuss the budget">>},
     text_final : {Null, <<"Today we discuss the budget.">>},
     prompt_used : {Null}]

UpdateReceive ==
    /\ crud.pc \in {"idle", "sent"}
    /\ \E id \in TranscriptIds, body \in UpdateBodies :
          crud' = updateTranscript_entry(NoUpdate, id, body)
    /\ UNCHANGED <<subs, subs0, today, svc, transcripts, req, users,
                 signup, adapter, transcripts_id_seq>>

Updated ==
    /\ crud.pc = "update"
    /\ transcripts' = Transcript_update(transcripts, parseInt(crud.id)[1], crud.body)
    /\ crud' = updateTranscript_updated(crud,
                 Transcript_returning(transcripts', parseInt(crud.id)[1]))
    /\ UNCHANGED <<subs, subs0, today, svc, req, users, signup, adapter,
                 transcripts_id_seq>>

UpdateFailed ==
    /\ crud.pc = "update"
    /\ \E error \in DatabaseErrors, NODE_ENV \in Environments :
          crud' = updateTranscript_catch(crud, error, NODE_ENV)
    /\ UNCHANGED <<subs, subs0, today, svc, transcripts, req, users,
                 signup, adapter, transcripts_id_seq>>

updateTranscript ==
    \/ UpdateReceive
    \/ Updated
    \/ UpdateFailed

-----------------------------------------------------------------------------
(* controllers/transcriptController.ts: getTranscriptById *)

NoGet ==
    [pc |-> "idle", id |-> "", transcript |-> Null, responses |-> <<>>]

\* From the entry of the handler to the call of Transcript.findById
getTranscriptById_entry(c, id) ==
    LET c1 == [c EXCEPT !.id = id] IN
    IF id = "" \/ parseInt(id) = Null
    THEN Send(c1, 400, [success |-> FALSE,
                        message |-> "Invalid transcript ID provided"])
    ELSE [c1 EXCEPT !.pc = "findById"]

\* From the result of Transcript.findById to the response
getTranscriptById_found(c, transcript) ==
    LET c1 == [c EXCEPT !.transcript = transcript] IN
    IF transcript = Null
    THEN Send(c1, 404, [success |-> FALSE, message |-> "Transcript not found"])
    ELSE Send(c1, 200, [success |-> TRUE, data |-> transcript])

\* catch (error): Transcript.findById threw
getTranscriptById_catch(c, error, NODE_ENV) ==
    Send(c, 500, [success |-> FALSE, message |-> "Failed to retrieve transcript",
                  error |-> IF NODE_ENV = "development"
                            THEN <<error.message>>
                            ELSE <<"Internal server error">>])

GetReceive ==
    /\ crud.pc \in {"idle", "sent"}
    /\ \E id \in TranscriptIds : crud' = getTranscriptById_entry(NoGet, id)
    /\ UNCHANGED <<subs, subs0, today, svc, transcripts, req, users,
                 signup, adapter, transcripts_id_seq>>

GetFound ==
    /\ crud.pc = "findById"
    /\ crud' = getTranscriptById_found(crud,
                 Transcript_findById(transcripts, parseInt(crud.id)[1]))
    /\ UNCHANGED <<subs, subs0, today, svc, transcripts, req, users,
                 signup, adapter, transcripts_id_seq>>

GetFailed ==
    /\ crud.pc = "findById"
    /\ \E error \in DatabaseErrors, NODE_ENV \in Environments :
          crud' = getTranscriptById_catch(crud, error, NODE_ENV)
    /\ UNCHANGED <<subs, subs0, today, svc, transcripts, req, users,
                 signup, adapter, transcripts_id_seq>>

getTranscriptById ==
    \/ GetReceive
    \/ GetFound
    \/ GetFailed

-----------------------------------------------------------------------------
(* controllers/transcriptController.ts: createTranscript *)

NoCreate ==
    [pc |-> "idle",
     body |-> [user_id |-> Null, audio_url |-> Null, duration_secs |-> Null,
               text_raw |-> Null, text_final |-> Null, prompt_used |-> Null],
     transcriptData |-> Null, newTranscript |-> Null, responses |-> <<>>]

\* From the entry of the handler to the call of Transcript.create; !user_id
\* holds of an absent user_id and of 0
createTranscript_entry(c, body) ==
    LET c1 == [c EXCEPT !.body = body] IN
    IF body.user_id = Null \/ body.user_id = <<0>>
    THEN Send(c1, 400, [success |-> FALSE, message |-> "User ID is required"])
    ELSE [c1 EXCEPT !.pc = "create",
                    !.transcriptData =
                        <<[user_id |-> body.user_id,
                           audio_url |-> body.audio_url,
                           duration_secs |-> body.duration_secs,
                           text_raw |-> body.text_raw,
                           text_final |-> body.text_final,
                           prompt_used |-> body.prompt_used]>>]

\* From the row Transcript.create returned to the response
createTranscript_created(c, newTranscript) ==
    Send([c EXCEPT !.newTranscript = <<newTranscript>>], 201,
         [success |-> TRUE, message |-> "Transcript created successfully",
          data |-> newTranscript])

\* catch (error): Transcript.create threw
createTranscript_catch(c, error, NODE_ENV) ==
    Send(c, 500, [success |-> FALSE, message |-> "Failed to create transcript",
                  error |-> IF NODE_ENV = "development"
                            THEN <<error.message>>
                            ELSE <<"Internal server error">>])

\* user_id REFERENCES users(id): the error of an INSERT for a user that does
\* not exist
ForeignKeyViolations ==
    {[message |-> "insert or update on table \"transcripts\" violates foreign key constraint \"transcripts_user_id_fkey\""]}

CreateBodies ==
    [user_id : {Null, <<0>>, <<1>>, <<2>>}, audio_url : {Null},
     duration_secs : {Null},
     text_raw : {Null, <<"notes typed by hand">>},
     text_final : {Null}, prompt_used : {Null}]

CreateReceive ==
    /\ crud.pc \in {"idle", "sent"}
    /\ transcripts_id_seq < MaxTranscripts
    /\ \E body \in CreateBodies : crud' = createTranscript_entry(NoCreate, body)
    /\ UNCHANGED <<subs, subs0, today, svc, transcripts, req, users,
                 signup, adapter, transcripts_id_seq>>

\* Transcript.create inserts the row and returns it
Created ==
    /\ crud.pc = "create"
    /\ \E i \in 1..Len(users) : users[i].id = crud.transcriptData[1].user_id[1]
    /\ transcripts_id_seq' = transcripts_id_seq + 1
    /\ transcripts' = Transcript_create(transcripts, transcripts_id_seq',
                                        crud.transcriptData[1])
    /\ crud' = createTranscript_created(crud, transcripts'[Len(transcripts')])
    /\ UNCHANGED <<subs, subs0, today, svc, req, users, signup, adapter>>

\* Transcript.create throws: the user does not exist, and the statement
\* has taken a value of the sequence before the constraint was checked
CreateRejected ==
    /\ crud.pc = "create"
    /\ \A i \in 1..Len(users) : users[i].id # crud.transcriptData[1].user_id[1]
    /\ \E error \in ForeignKeyViolations, NODE_ENV \in Environments :
          crud' = createTranscript_catch(crud, error, NODE_ENV)
    /\ transcripts_id_seq' = transcripts_id_seq + 1
    /\ UNCHANGED <<subs, subs0, today, svc, transcripts, req, users,
                 signup, adapter>>

\* Transcript.create throws: the query never reached the server
CreateFailed ==
    /\ crud.pc = "create"
    /\ \E error \in DatabaseErrors, NODE_ENV \in Environments :
          crud' = createTranscript_catch(crud, error, NODE_ENV)
    /\ UNCHANGED <<subs, subs0, today, svc, transcripts, req, users,
                 signup, adapter, transcripts_id_seq>>

createTranscript ==
    \/ CreateReceive
    \/ Created
    \/ CreateRejected
    \/ CreateFailed

-----------------------------------------------------------------------------
(* controllers/transcriptController.ts: deleteTranscript *)

NoDelete ==
    [pc |-> "idle", id |-> "", deletedTranscript |-> Null, responses |-> <<>>]

\* From the entry of the handler to the call of Transcript.delete
deleteTranscript_entry(c, id) ==
    LET c1 == [c EXCEPT !.id = id] IN
    IF id = "" \/ parseInt(id) = Null
    THEN Send(c1, 400, [success |-> FALSE,
                        message |-> "Invalid transcript ID provided"])
    ELSE [c1 EXCEPT !.pc = "delete"]

\* From the result of Transcript.delete to the response
deleteTranscript_deleted(c, deletedTranscript) ==
    LET c1 == [c EXCEPT !.deletedTranscript = deletedTranscript] IN
    IF deletedTranscript = Null
    THEN Send(c1, 404, [success |-> FALSE, message |-> "Transcript not found"])
    ELSE Send(c1, 200, [success |-> TRUE,
                        message |-> "Transcript deleted successfully",
                        data |-> deletedTranscript])

\* catch (error): Transcript.delete threw
deleteTranscript_catch(c, error, NODE_ENV) ==
    Send(c, 500, [success |-> FALSE, message |-> "Failed to delete transcript",
                  error |-> IF NODE_ENV = "development"
                            THEN <<error.message>>
                            ELSE <<"Internal server error">>])

DeleteReceive ==
    /\ crud.pc \in {"idle", "sent"}
    /\ \E id \in TranscriptIds : crud' = deleteTranscript_entry(NoDelete, id)
    /\ UNCHANGED <<subs, subs0, today, svc, transcripts, req, users,
                 signup, adapter, transcripts_id_seq>>

\* DELETE ... RETURNING *: the row leaves the table and is returned
Deleted ==
    /\ crud.pc = "delete"
    /\ transcripts' = Transcript_delete(transcripts, parseInt(crud.id)[1])
    /\ crud' = deleteTranscript_deleted(crud,
                 Transcript_findById(transcripts, parseInt(crud.id)[1]))
    /\ UNCHANGED <<subs, subs0, today, svc, req, users, signup, adapter,
                 transcripts_id_seq>>

DeleteFailed ==
    /\ crud.pc = "delete"
    /\ \E error \in DatabaseErrors, NODE_ENV \in Environments :
          crud' = deleteTranscript_catch(crud, error, NODE_ENV)
    /\ UNCHANGED <<subs, subs0, today, svc, transcripts, req, users,
                 signup, adapter, transcripts_id_seq>>

deleteTranscript ==
    \/ DeleteReceive
    \/ Deleted
    \/ DeleteFailed

-----------------------------------------------------------------------------
(* models/User.ts, models/Subscription.ts (create) and                     *)
(* controllers/userController.ts: createUser                               *)

\* SELECT * FROM users WHERE apple_uid = $1; result.rows[0] || null
User_findByFirebaseUid(tbl, firebaseUid) ==
    LET found == {i \in 1..Len(tbl) : tbl[i].firebase_uid = firebaseUid} IN
    IF found = {} THEN Null ELSE <<tbl[CHOOSE i \in found : TRUE]>>

\* INSERT INTO users (apple_uid, email) VALUES ($1, $2) RETURNING *; the
\* table is unchanged where apple_uid UNIQUE rejects the row
User_create(tbl, userData) ==
    IF User_findByFirebaseUid(tbl, userData.firebase_uid) # Null
    THEN tbl
    ELSE Append(tbl, [id |-> Len(tbl) + 1,
                      firebase_uid |-> userData.firebase_uid,
                      email |-> userData.email])

\* INSERT INTO subscriptions (user_id, status, balance, expiry_date)
\* VALUES ($1, $2, $3, $4); the table is unchanged where user_id UNIQUE
\* rejects the row
Subscription_create(tbl, data) ==
    IF data.user_id \in DOMAIN tbl
    THEN tbl
    ELSE tbl @@ (data.user_id :> [status      |-> data.status,
                                  balance     |-> data.balance,
                                  expiry_date |-> data.expiry_date])

\* The row createFreeSubscription hands to Subscription.create at date now
createFreeSubscription(userId, now) ==
    [user_id |-> userId, status |-> "free", balance |-> 10,
     expiry_date |-> getNextMonthFirstDay(now)]

NoSignup ==
    [pc |-> "idle", body |-> [firebase_uid |-> Null, email |-> Null],
     existingUser |-> Null, result |-> Null, newUser |-> Null,
     data |-> Null, responses |-> <<>>]

\* catch (error): an awaited query of createUser rejected
createUser_catch(c, error, NODE_ENV) ==
    Send(c, 500, [success |-> FALSE, message |-> "Failed to create user",
                  error |-> IF NODE_ENV = "development"
                            THEN error.message
                            ELSE "Internal server error"])

\* createUser from its entry to its first await
createUser_entry(c, body) ==
    LET c1 == [c EXCEPT !.body = body] IN
    IF Falsy(body.firebase_uid)
    THEN Send(c1, 400, [success |-> FALSE,
                        message |-> "Firebase UID is required"])
    ELSE [c1 EXCEPT !.pc = "findByFirebaseUid"]

\* From the result of User.findByFirebaseUid to the call of User.create
createUser_found(c, existingUser) ==
    LET c1 == [c EXCEPT !.existingUser = existingUser] IN
    IF existingUser # Null
    THEN Send(c1, 409, [success |-> FALSE,
                        message |-> "User with this Firebase UID already exists"])
    ELSE [c1 EXCEPT !.pc = "User.create"]

\* The INSERT of User.create has run at the database: its row is on the way
\* back and the handler still waits at await User.create
createUser_inserted(c, result) ==
    [c EXCEPT !.result = result, !.pc = "User.create returned"]

\* The handler resumes with the row User.create returned and goes on to the
\* call of Subscription.create; createFreeSubscription reads the date now
createUser_created(c, newUser, now) ==
    [c EXCEPT !.newUser = newUser,
              !.data = <<createFreeSubscription(newUser[1].id, now)>>,
              !.pc = "Subscription.create"]

\* From the return of createFreeSubscription to the response
createUser_subscribed(c, subscription) ==
    Send(c, 201, [success |-> TRUE,
                  message |-> "User created successfully with free subscription",
                  data |-> c.newUser[1]])

\* The errors INSERT INTO users rejects with when apple_uid is taken: the
\* text is the database's
UniqueViolations ==
    {[message |-> "duplicate key value violates unique constraint \"users_apple_uid_key\""],
     [message |-> "UNIQUE constraint failed: users.apple_uid"]}

FirebaseUids == {"uid-1", "uid-2"}

SignupReceive(s) ==
    /\ signup[s].pc = "idle"
    /\ \A q \in Signups : q < s => signup[q].pc # "idle"
    /\ \E firebase_uid \in {Null} \cup {<<f>> : f \in FirebaseUids} :
          signup' = [signup EXCEPT ![s] = createUser_entry(signup[s],
                        [firebase_uid |-> firebase_uid, email |-> Null])]
    /\ UNCHANGED <<subs, subs0, today, svc, transcripts, req, users,
                 adapter, crud, transcripts_id_seq>>

SignupFound(s) ==
    /\ signup[s].pc = "findByFirebaseUid"
    /\ signup' = [signup EXCEPT ![s] = createUser_found(signup[s],
                     User_findByFirebaseUid(users, signup[s].body.firebase_uid[1]))]
    /\ UNCHANGED <<subs, subs0, today, svc, transcripts, req, users,
                 adapter, crud, transcripts_id_seq>>

\* User.findByFirebaseUid throws: the query failed
SignupFindFailed(s) ==
    /\ signup[s].pc = "findByFirebaseUid"
    /\ \E error \in DatabaseErrors, NODE_ENV \in Environments :
          signup' = [signup EXCEPT ![s] = createUser_catch(signup[s], error, NODE_ENV)]
    /\ UNCHANGED <<subs, subs0, today, svc, transcripts, req, users,
                 adapter, crud, transcripts_id_seq>>

\* The INSERT of User.create takes effect: the row is in the table, for
\* every other request to see, before the handler has it
UserInserted(s) ==
    /\ signup[s].pc = "User.create"
    /\ users' = User_create(users, [firebase_uid |-> signup[s].body.firebase_uid[1],
                                    email |-> signup[s].body.email])
    /\ users' # users
    /\ signup' = [signup EXCEPT ![s] =
                     createUser_inserted(signup[s], <<users'[Len(users')]>>)]
    /\ UNCHANGED <<subs, subs0, today, svc, transcripts, req, adapter,
                 crud, transcripts_id_seq>>

\* await User.create returns the row: the handler resumes and
\* createFreeSubscription reads the date of that moment
UserCreated(s) ==
    /\ signup[s].pc = "User.create returned"
    /\ signup' = [signup EXCEPT ![s] =
                     createUser_created(signup[s], signup[s].result, today)]
    /\ UNCHANGED <<subs, subs0, today, svc, transcripts, req, users,
                 adapter, crud, transcripts_id_seq>>

\* User.create throws: apple_uid is taken by now, or the query failed
UserCreateFailed(s) ==
    /\ signup[s].pc = "User.create"
    /\ \E error \in DatabaseErrors \cup
                    (IF User_findByFirebaseUid(users,
                           signup[s].body.firebase_uid[1]) # Null
                     THEN UniqueViolations ELSE {}),
          NODE_ENV \in Environments :
          signup' = [signup EXCEPT ![s] = createUser_catch(signup[s], error, NODE_ENV)]
    /\ UNCHANGED <<subs, subs0, today, svc, transcripts, req, users,
                 adapter, crud, transcripts_id_seq>>

\* Subscription.create inserts the row and returns it
SubscriptionCreated(s) ==
    /\ signup[s].pc = "Subscription.create"
    /\ subs' = Subscription_create(subs, signup[s].data[1])
    /\ subs' # subs
    /\ signup' = [signup EXCEPT ![s] = createUser_subscribed(signup[s],
                     findByUserId(subs', signup[s].data[1].user_id))]
    /\ UNCHANGED <<subs0, today, svc, transcripts, req, users, adapter,
                 crud, transcripts_id_seq>>

\* Subscription.create throws: the query failed
SubscriptionCreateFailed(s) ==
    /\ signup[s].pc = "Subscription.create"
    /\ \E error \in DatabaseErrors, NODE_ENV \in Environments :
          signup' = [signup EXCEPT ![s] = createUser_catch(signup[s], error, NODE_ENV)]
    /\ UNCHANGED <<subs, subs0, today, svc, transcripts, req, users,
                 adapter, crud, transcripts_id_seq>>

createUser(s) ==
    \/ SignupReceive(s)
    \/ SignupFound(s)
    \/ SignupFindFailed(s)
    \/ UserInserted(s)
    \/ UserCreated(s)
    \/ UserCreateFailed(s)
    \/ SubscriptionCreated(s)
    \/ SubscriptionCreateFailed(s)

\* The users who have the ledger rows of the initial subscriptions table
InitialUsers ==
    [i \in LedgerUsers |-> [id |-> i, firebase_uid |-> "uid-1", email |-> Null]]

InitUsers ==
    /\ subs \in [LedgerUsers -> [status : {"free"}, balance : InitBalances,
                                 expiry_date : {DaysPerMonth}]]
    /\ subs0 = subs
    /\ today = 0
    /\ svc = [p \in Procs |-> IdleCall]
    /\ transcripts = <<>>
    /\ req = [r \in Reqs |-> NoRequest]
    /\ users = InitialUsers
    /\ signup = [s \in Signups |-> NoSignup]
    /\ adapter = NoCall
    /\ crud = NoCrud
    /\ transcripts_id_seq = 0

NextUsers ==
    \/ \E s \in Signups : createUser(s)
    \/ Tick

SpecUsers == InitUsers /\ [][NextUsers]_vars

-----------------------------------------------------------------------------
(* The pipeline on its own *)

InitPipeline ==
    /\ subs \in [LedgerUsers -> [status : {"free"}, balance : InitBalances,
                                 expiry_date : {DaysPerMonth}]]
    /\ subs0 = subs
    /\ today = 0
    /\ svc = [p \in Procs |-> IdleCall]
    /\ transcripts = <<>>
    /\ req = [r \in Reqs |-> NoRequest]
    /\ users = InitialUsers
    /\ signup = [s \in Signups |-> NoSignup]
    /\ adapter = NoCall
    /\ crud = NoCrud
    /\ transcripts_id_seq = 0

NextPipeline == \E r \in Reqs : transcribeAndCorrect(r)

SpecPipeline == InitPipeline /\ [][NextPipeline]_vars

-----------------------------------------------------------------------------
(* The routes of the transcripts: the pipeline next to the CRUD endpoints *)

InitTranscripts == InitPipeline

NextTranscripts ==
    \/ \E r \in Reqs : transcribeAndCorrect(r)
    \/ getTranscriptById
    \/ createTranscript
    \/ updateTranscript
    \/ deleteTranscript

SpecTranscripts == InitTranscripts /\ [][NextTranscripts]_vars

-----------------------------------------------------------------------------
(* The ledger under concurrent calls *)

LedgerRows ==
    [status : {"free", "premium"}, balance : InitBalances,
     expiry_date : {0, DaysPerMonth}]

Init ==
    /\ subs \in [LedgerUsers -> LedgerRows]
    /\ subs0 = subs
    /\ today = 0
    /\ svc = [p \in Procs |-> IdleCall]
    /\ transcripts = <<>>
    /\ req = [r \in Reqs |-> NoRequest]
    /\ users = InitialUsers
    /\ signup = [s \in Signups |-> NoSignup]
    /\ adapter = NoCall
    /\ crud = NoCrud
    /\ transcripts_id_seq = 0

Next ==
    \/ \E p \in Procs : checkBalance(p)
    \/ \E p \in Procs : resetMonthlyBalance(p)
    \/ \E p \in Procs : deductBalance(p)
    \/ \E p \in Procs : addCredits(p)
    \/ \E p \in Procs : upgradeToPremium(p)
    \/ \E p \in Procs : downgradeToFree(p)
    \/ Tick

Spec == Init /\ [][Next]_vars

\* The ledger when no two calls overlap: a call enters only when every other
\* call has returned or thrown.
Quiescent == \A q \in Procs : svc[q].pc \in {"idle", "returned", "threw"}

NextSeq ==
    /\ Next
    /\ (\E p \in Procs : svc[p].pc = "idle" /\ svc'[p].pc # "idle") => Quiescent

SpecSeq == Init /\ [][NextSeq]_vars

-----------------------------------------------------------------------------
(* The adapter on its own: one call of transcribe or processText *)

InitAdapter == InitPipeline

NextAdapter ==
    \/ TranscribeCalled
    \/ TranscribeSettled
    \/ ProcessTextCalled
    \/ ProcessTextSettled

SpecAdapter == InitAdapter /\ [][NextAdapter]_vars

-----------------------------------------------------------------------------
(* Pipeline properties *)

TranscriptionFailed(c) ==
    c.transcriptionResult # Null /\ ~c.transcriptionResult[1].success
TranscriptionSucceeded(c) ==
    c.transcriptionResult # Null /\ c.transcriptionResult[1].success
CorrectionFailed(c) ==
    c.correctionResult # Null /\ ~c.correctionResult[1].success
CorrectionSucceeded(c) ==
    c.correctionResult # Null /\ c.correctionResult[1].success

\* The rows of the transcripts table are the rows the requests saved
SavedRows ==
    /\ Len(transcripts) = Cardinality({r \in Reqs : req[r].savedTranscript # Null})
    /\ \A r \in Reqs : req[r].savedTranscript # Null =>
          \E i \in 1..Len(transcripts) : transcripts[i] = req[r].savedTranscript[1]

\* C1: when speech-to-text returns a failure the request stops there: the
\* rewriter is not invoked, no Transcript is persisted, no ledger is changed
\* and the one response is 422 {success: false, message: 'Transcription
\* failed', error: the provider's error}.
C1_TranscriptionFailureStops ==
    \A r \in Reqs :
        LET c == req[r] IN
        TranscriptionFailed(c) =>
            /\ c.pc = "sent"
            /\ Len(c.calls) = 1
            /\ c.calls[1].fn = "transcribe"
            /\ c.correctionResult = Null
            /\ c.transcriptData = Null
            /\ c.savedTranscript = Null
            /\ SavedRows
            /\ subs = subs0
            /\ c.transcriptionResult[1].error # Null
            /\ c.responses =
                 <<[status |-> 422,
                    body |-> [success |-> FALSE,
                              message |-> "Transcription failed",
                              error |-> c.transcriptionResult[1].error]]>>

C1_Witness ==
    \E r \in Reqs :
        /\ TranscriptionFailed(req[r])
        /\ req[r].pc = "sent"
        /\ req[r].responses[1].status = 422
        /\ req[r].responses[1].body.error =
              <<"OpenAI API quota exceeded. Please check your billing.">>
        /\ transcripts = <<>>

\* C2: when speech-to-text succeeds and the rewriter returns a failure, the
\* Transcript handed to persistence has text_final equal to text_raw, the
\* transcription output, and the response is success: true with finalText
\* equal to rawTranscript, correctionFailed: true and correctionError the
\* rewriter's error.
C2_CorrectionFailureFallsBack ==
    \A r \in Reqs :
        LET c == req[r] IN
        CorrectionFailed(c) =>
            /\ TranscriptionSucceeded(c)
            /\ c.pc \in {"create", "sent"}
            /\ c.transcriptData # Null
            /\ c.transcriptData[1].text_raw = c.transcriptionResult[1].transcript
            /\ c.transcriptData[1].text_final = c.transcriptData[1].text_raw
            /\ c.transcriptData[1].text_raw # Null
            /\ c.calls[Len(c.calls)].data = c.transcriptData[1]
            /\ c.savedTranscript # Null =>
                  /\ c.savedTranscript[1].text_final = c.savedTranscript[1].text_raw
                  /\ c.savedTranscript[1].text_raw = c.transcriptionResult[1].transcript
            /\ c.pc = "sent" =>
                  /\ Len(c.responses) = 1
                  /\ c.responses[1].status = 200
                  /\ c.responses[1].body.success
                  /\ c.responses[1].body.data.rawTranscript
                        = c.transcriptionResult[1].transcript
                  /\ c.responses[1].body.data.finalText
                        = c.responses[1].body.data.rawTranscript
                  /\ c.responses[1].body.data.correctionFailed
                  /\ c.responses[1].body.data.correctionError
                        = c.correctionResult[1].error
                  /\ c.correctionResult[1].error # Null

C2_Witness ==
    \E r \in Reqs :
        /\ CorrectionFailed(req[r])
        /\ req[r].pc = "sent"
        /\ req[r].savedTranscript # Null
        /\ transcripts[1].text_final = <<"um so today we're gonna talk about">>
        /\ req[r].responses[1].body.data.correctionError =
              <<"text processing request timed out. Please try again.">>

\* The guidance the rewriter applies for a request: the caller's style
\* guidance when supplied and non-empty, otherwise the fixed default prompt
GuidanceApplied(c) ==
    IF c.body.prompt # Null /\ c.body.prompt # <<"">>
    THEN c.body.prompt
    ELSE <<defaultPrompt>>

\* C3: when both speech-to-text and rewrite succeed, the persisted text_final
\* and the response's finalText are the rewriter's output, and the persisted
\* prompt_used and the response's promptUsed are the guidance applied: the
\* caller's when supplied and non-empty, otherwise the default prompt text.
C3_SuccessUsesRewriterOutput ==
    \A r \in Reqs :
        LET c == req[r] IN
        CorrectionSucceeded(c) =>
            /\ TranscriptionSucceeded(c)
            /\ c.pc \in {"create", "sent"}
            /\ c.correctionResult[1].processedText # Null
            /\ c.transcriptData[1].text_final = c.correctionResult[1].processedText
            /\ c.transcriptData[1].prompt_used = GuidanceApplied(c)
            /\ c.savedTranscript # Null =>
                  /\ c.savedTranscript[1].text_final
                        = c.correctionResult[1].processedText
                  /\ c.savedTranscript[1].prompt_used = GuidanceApplied(c)
                  /\ SavedRows
            /\ c.pc = "sent" =>
                  /\ Len(c.responses) = 1
                  /\ c.responses[1].status = 200
                  /\ c.responses[1].body.success
                  /\ c.responses[1].body.data.finalText
                        = c.correctionResult[1].processedText
                  /\ c.responses[1].body.data.promptUsed = GuidanceApplied(c)

C3_Witness ==
    \E r \in Reqs :
        /\ CorrectionSucceeded(req[r])
        /\ req[r].pc = "sent"
        /\ req[r].body.prompt = Null
        /\ req[r].savedTranscript # Null
        /\ transcripts[1].prompt_used = <<defaultPrompt>>
        /\ transcripts[1].text_final = <<"So, today we are going to talk about">>
        /\ req[r].responses[1].body.data.finalText = transcripts[1].text_final

\* C9 as stated: once speech-to-text has returned success, whatever the
\* rewriter and the persistence layer do, the request is on its way to, or
\* has sent, one response that is success: true and contains the raw
\* transcript.
C9_TranscriptNeverDropped ==
    \A r \in Reqs :
        LET c == req[r] IN
        TranscriptionSucceeded(c) =>
            /\ c.transcriptionResult[1].transcript # Null
            /\ \/ c.pc \in {"processText", "create"} /\ c.responses = <<>>
               \/ /\ c.pc = "sent"
                  /\ Len(c.responses) = 1
                  /\ c.responses[1].status = 200
                  /\ c.responses[1].body.success
                  /\ c.responses[1].body.data.rawTranscript
                        = c.transcriptionResult[1].transcript

\* C9, amended: once speech-to-text has returned success and the rewriter
\* returns a result, success or failure, then whatever the persistence layer
\* does the request sends one response that is success: true and contains
\* the raw transcript.  When the rewriter raises an exception instead of
\* returning a result, the request ends with the one 500 internal-error
\* response, which does not carry the transcript, and nothing is saved.
C9_TranscriptKeptWhenRewriterReturns ==
    \A r \in Reqs :
        LET c == req[r] IN
        TranscriptionSucceeded(c) =>
            /\ c.transcriptionResult[1].transcript # Null
            /\ c.correctionResult # Null => c.caught = Null
            /\ \/ c.pc \in {"processText", "create"} /\ c.responses = <<>>
               \/ /\ c.pc = "sent"
                  /\ c.correctionResult # Null
                  /\ Len(c.responses) = 1
                  /\ c.responses[1].status = 200
                  /\ c.responses[1].body.success
                  /\ c.responses[1].body.data.rawTranscript
                        = c.transcriptionResult[1].transcript
               \/ /\ c.pc = "sent"
                  /\ c.correctionResult = Null
                  /\ c.caught # Null
                  /\ Len(c.calls) = 2
                  /\ c.savedTranscript = Null
                  /\ c.responses =
                       <<[status |-> 500,
                          body |-> [success |-> FALSE,
                                    message |-> "Internal server error during processing",
                                    error |-> c.responses[1].body.error]]>>

\* Both the rewrite and the save failed, and the caller has the transcript
C9_Witness ==
    \E r \in Reqs :
        /\ CorrectionFailed(req[r])
        /\ req[r].pc = "sent"
        /\ req[r].savedTranscript = Null
        /\ transcripts = <<>>
        /\ req[r].responses[1].body.success
        /\ req[r].responses[1].body.data.rawTranscript =
              <<"um so today we're gonna talk about">>

\* The response section 6 gives for a request, transcriptId apart
ResponseWithoutId(c) ==
    LET tr == c.transcriptionResult[1]
        cr == c.correctionResult[1]
    IN  IF cr.success
        THEN [status |-> 200,
              body |-> [success |-> TRUE,
                        data |-> [transcriptId |-> Null,
                                  rawTranscript |-> tr.transcript,
                                  finalText |-> cr.processedText,
                                  duration |-> tr.duration,
                                  promptUsed |-> cr.promptUsed]]]
        ELSE [status |-> 200,
              body |-> [success |-> TRUE,
                        data |-> [transcriptId |-> Null,
                                  rawTranscript |-> tr.transcript,
                                  finalText |-> tr.transcript,
                                  duration |-> tr.duration,
                                  correctionFailed |-> TRUE,
                                  correctionError |-> cr.error]]]

\* C10: a failure of Transcript persistence is swallowed: the response is the
\* full-success or degraded response, with the same texts, that is sent when
\* persistence succeeds, only without transcriptId, and never a failure.
C10_PersistenceFailureSwallowed ==
    \A r \in Reqs :
        LET c == req[r] IN
        (c.pc = "sent" /\ c.transcriptData # Null) =>
            /\ Len(c.responses) = 1
            /\ [c.responses[1] EXCEPT !.body.data.transcriptId = Null]
                  = ResponseWithoutId(c)
            /\ c.responses[1].body.data.transcriptId = idOf(c.savedTranscript)

C10_Witness ==
    \E r \in Reqs :
        /\ req[r].pc = "sent"
        /\ CorrectionSucceeded(req[r])
        /\ req[r].savedTranscript = Null
        /\ req[r].calls[Len(req[r].calls)].fn = "Transcript.create"
        /\ transcripts = <<>>
        /\ req[r].responses[1].status = 200
        /\ req[r].responses[1].body.data.transcriptId = Null
        /\ req[r].responses[1].body.data.finalText =
              <<"So, today we are going to talk about">>

-----------------------------------------------------------------------------
(* Ledger properties *)

\* d is the first day of the month after the month of now
FirstDayOfNextMonth(d, now) ==
    /\ d % DaysPerMonth = 0
    /\ now < d
    /\ d <= now + DaysPerMonth

Finished(p) == svc[p].pc \in {"returned", "threw"}
Started == {p \in Procs : svc[p].pc # "idle"}

\* p's call moves from position a to position b in this step
Moves(p, op, a, b) ==
    /\ svc[p].op = op
    /\ svc[p].pc = a
    /\ svc'[p].pc = b

\* p's call to op takes a step
Steps(p, op) ==
    /\ svc'[p] # svc[p]
    /\ svc'[p].op = op

\* C4: N concurrent debits of m minutes each on one ledger row with starting
\* balance B leave, once all have finished and whatever their interleaving,
\* a balance of exactly B - N*m.
C4_NoLostDebit ==
    \A u \in DOMAIN subs, m \in Amounts :
        ( /\ \A p \in Started : /\ svc[p].op = "deductBalance"
                                /\ svc[p].userId = u
                                /\ svc[p].minutes = m
                                /\ Finished(p) )
        => subs[u].balance = subs0[u].balance - Cardinality(Started) * m

C4_Witness ==
    \E u \in DOMAIN subs, m \in Amounts :
        /\ Cardinality(Started) >= 2
        /\ \A p \in Started : /\ svc[p].op = "deductBalance"
                              /\ svc[p].userId = u
                              /\ svc[p].minutes = m
                              /\ svc[p].pc = "returned"
        /\ subs[u].balance = subs0[u].balance - Cardinality(Started) * m

\* The balance delta of the call in slot p on user u, if it took effect
Delta(p, u) ==
    IF svc[p].userId # u \/ svc[p].pc # "returned" THEN 0
    ELSE IF svc[p].op = "deductBalance" THEN 0 - svc[p].minutes
    ELSE IF svc[p].op = "addCredits" THEN svc[p].minutes
    ELSE IF svc[p].op = "resetMonthlyBalance" /\ svc[p].data # NoData
         THEN monthlyAllowance(svc[p].subscription[1].status)
    ELSE IF svc[p].op = "upgradeToPremium" THEN premiumAllowance
    ELSE 0

RECURSIVE SumDelta(_, _)
SumDelta(n, u) == IF n = 0 THEN 0 ELSE Delta(n, u) + SumDelta(n - 1, u)

\* C5: every ledger mutation is one atomic update, so in any interleaving of
\* ledger calls on a user no update is lost: once all calls have finished the
\* balance is the starting balance plus the deltas of the calls that took
\* effect.
C5_NoLostUpdate ==
    (\A p \in Started : Finished(p))
    => \A u \in DOMAIN subs :
          subs[u].balance = subs0[u].balance + SumDelta(NProcs, u)

\* C6: a replenish call on a ledger whose expiry is after the current date
\* changes nothing; one whose expiry is on or before the current date adds
\* the tier's allowance (10 free, 1000 premium) once to the existing balance,
\* however long ago the expiry passed, and sets expiry to the first day of
\* the following month, which is after the current date, so that a repeated
\* call changes nothing.
C6_ReplenishIdempotent ==
    [][\A p \in Procs :
         LET u == svc[p].userId IN
         /\ ( /\ svc[p].op = "resetMonthlyBalance"
              /\ svc[p].pc = "found"
              /\ svc'[p].pc # "found"
              /\ u \in DOMAIN subs )
            => IF subs[u].expiry_date > today
               THEN svc'[p].pc = "returned" /\ svc'[p].data = NoData
               ELSE /\ svc'[p].pc = "update"
                    /\ FirstDayOfNextMonth(svc'[p].data.expiry_date[1], today)
         /\ Moves(p, "resetMonthlyBalance", "update", "returned")
            => subs' = [subs EXCEPT ![u] =
                  [status      |-> @.status,
                   balance     |-> @.balance
                                     + (IF @.status = "free" THEN 10 ELSE 1000),
                   expiry_date |-> svc[p].data.expiry_date[1]]]
         /\ (Steps(p, "resetMonthlyBalance") /\ svc[p].pc # "update")
            => subs' = subs
      ]_vars

\* A replenish long past expiry has been followed by a second call, which
\* read the row the first one wrote and returned without an update.
C6_Witness ==
    \E p, q \in Procs :
        /\ svc[p].op = "resetMonthlyBalance" /\ svc[p].pc = "returned"
        /\ svc[p].data # NoData
        /\ svc[p].subscription[1].expiry_date + DaysPerMonth < svc[p].data.expiry_date[1]
        /\ svc[q].op = "resetMonthlyBalance" /\ svc[q].pc = "returned"
        /\ svc[q].userId = svc[p].userId
        /\ svc[q].data = NoData
        /\ svc[q].subscription = svc[p].result
        /\ subs[svc[p].userId].balance = subs0[svc[p].userId].balance
               + monthlyAllowance(subs0[svc[p].userId].status)

\* C7: upgrading a free user with balance B leaves the ledger with tier
\* premium, balance exactly B + 1000 and expiry on the first day of next
\* month.
C7_UpgradeAdds ==
    [][\A p \in Procs :
         LET u == svc[p].userId IN
         /\ Moves(p, "upgradeToPremium", "found", "update")
            => FirstDayOfNextMonth(svc'[p].data.expiry_date[1], today)
         /\ ( /\ Moves(p, "upgradeToPremium", "update", "returned")
              /\ subs[u].status = "free" )
            => subs' = [subs EXCEPT ![u] =
                  [status      |-> "premium",
                   balance     |-> @.balance + 1000,
                   expiry_date |-> svc[p].data.expiry_date[1]]]
      ]_vars

C7_Witness ==
    \E p \in Procs :
        /\ svc[p].op = "upgradeToPremium" /\ svc[p].pc = "returned"
        /\ svc[p].subscription[1].status = "free"
        /\ svc[p].subscription[1].balance # 0
        /\ subs[svc[p].userId] =
              [status |-> "premium",
               balance |-> svc[p].subscription[1].balance + 1000,
               expiry_date |-> svc[p].data.expiry_date[1]]

\* C8: a downgrade to free changes only the tier (to free) and the expiry (to
\* the first day of next month); the balance the row has when the update
\* runs is kept, also when a debit or credit on the same user ran between
\* the downgrade's read and its update.
C8_DowngradeKeepsBalance ==
    [][\A p \in Procs :
         LET u == svc[p].userId IN
         /\ Moves(p, "downgradeToFree", "found", "update")
            => FirstDayOfNextMonth(svc'[p].data.expiry_date[1], today)
         /\ Moves(p, "downgradeToFree", "update", "returned")
            => subs' = [subs EXCEPT ![u] =
                  [status      |-> "free",
                   balance     |-> @.balance,
                   expiry_date |-> svc[p].data.expiry_date[1]]]
         /\ (Steps(p, "downgradeToFree") /\ svc[p].pc # "update")
            => subs' = subs
      ]_vars

\* A downgrade has returned a row whose balance differs from the one it
\* read: a debit or credit ran in between, and its effect is kept.
C8_Witness ==
    \E p, q \in Procs :
        /\ svc[p].op = "downgradeToFree" /\ svc[p].pc = "returned"
        /\ svc[q].op \in {"deductBalance", "addCredits"}
        /\ svc[q].userId = svc[p].userId /\ svc[q].pc = "returned"
        /\ svc[p].result[1].balance # svc[p].subscription[1].balance
        /\ svc[p].result[1].balance = svc[q].result[1].balance
        /\ svc[p].result[1].status = "free"

-----------------------------------------------------------------------------
(* Pipeline properties: validation, persistence, frame and retries *)

\* C11: a request with no audio file is answered 400 {success: false,
\* message: 'No audio file provided'}, whatever else it carries, and makes no
\* provider call (neither transcribe nor processText) and no Transcript
\* write.
C11_MissingAudioRejected ==
    \A r \in Reqs :
        LET c == req[r] IN
        (c.pc # "idle" /\ c.file = Null) =>
            /\ c.pc = "sent"
            /\ c.responses =
                 <<[status |-> 400,
                    body |-> [success |-> FALSE,
                              message |-> "No audio file provided"]]>>
            /\ c.calls = <<>>
            /\ c.transcriptionResult = Null
            /\ c.correctionResult = Null
            /\ c.transcriptData = Null
            /\ c.savedTranscript = Null
            /\ SavedRows

C11_Witness ==
    \E r \in Reqs :
        /\ req[r].pc = "sent"
        /\ req[r].file = Null
        /\ req[r].body.user_id = Null
        /\ req[r].body.prompt = <<"Make this sound professional">>
        /\ req[r].responses[1].status = 400
        /\ req[r].responses[1].body.message = "No audio file provided"
        /\ req[r].calls = <<>>
        /\ transcripts = <<>>

\* C12: the style guidance and the user identifier are optional: every
\* request that carries an audio file, with or without them, proceeds to
\* speech-to-text, and transcribe is invoked with exactly the uploaded bytes,
\* the original filename and the MIME type.
C12_GuidanceAndUserIdOptional ==
    \A r \in Reqs :
        LET c == req[r] IN
        (c.pc # "idle" /\ c.file # Null) =>
            /\ Len(c.calls) >= 1
            /\ c.calls[1] = [fn |-> "transcribe",
                             audioBuffer |-> c.file[1].buffer,
                             filename |-> c.file[1].originalname,
                             mimeType |-> c.file[1].mimetype]

\* The request has sent a success response, full or degraded
SentSuccess(c) ==
    /\ c.pc = "sent"
    /\ c.responses[Len(c.responses)].body.success

\* The calls of fn the request has made
CallsOf(c, fn) == {i \in 1..Len(c.calls) : c.calls[i].fn = fn}

\* C13 as stated: every request that ends in a success response, full or
\* degraded, has created exactly one Transcript record.
C13_ExactlyOneTranscript ==
    \A r \in Reqs :
        LET c == req[r] IN
        SentSuccess(c) =>
            /\ c.savedTranscript # Null
            /\ Cardinality({i \in 1..Len(transcripts) :
                                transcripts[i] = c.savedTranscript[1]}) = 1

\* C13, amended: every request that ends in a success response, full or
\* degraded, has called Transcript.create exactly once, and has created one
\* Transcript record when that call returned and none when it threw; the
\* requests make no other call on the transcripts table, and a step changes
\* the table only by appending the row of a request's create, so no existing
\* Transcript is updated or deleted.
C13_OneCreatePerSuccess ==
    /\ [](\A r \in Reqs :
            LET c == req[r] IN
            /\ \A i \in 1..Len(c.calls) :
                   c.calls[i].fn \in {"transcribe", "processText", "Transcript.create"}
            /\ Cardinality(CallsOf(c, "Transcript.create")) <= 1
            /\ c.savedTranscript # Null =>
                  Cardinality({i \in 1..Len(transcripts) :
                                  transcripts[i] = c.savedTranscript[1]}) = 1
            /\ SentSuccess(c) =>
                  /\ Cardinality(CallsOf(c, "Transcript.create")) = 1
                  /\ c.calls[Len(c.calls)].data = c.transcriptData[1]
                  /\ Len(transcripts)
                        = Cardinality({q \in Reqs : req[q].savedTranscript # Null}))
    /\ [][\/ transcripts' = transcripts
          \/ \E r \in Reqs :
                /\ req[r].pc = "create"
                /\ req[r].savedTranscript = Null
                /\ req'[r].savedTranscript # Null
                /\ req'[r].savedTranscript[1].text_raw
                      = req[r].transcriptData[1].text_raw
                /\ req'[r].savedTranscript[1].text_final
                      = req[r].transcriptData[1].text_final
                /\ transcripts' = Append(transcripts, req'[r].savedTranscript[1])
         ]_vars

\* A degraded success response whose one Transcript record is in the table
C13_Witness ==
    \E r \in Reqs :
        /\ SentSuccess(req[r])
        /\ CorrectionFailed(req[r])
        /\ Cardinality(CallsOf(req[r], "Transcript.create")) = 1
        /\ Len(transcripts) = 1
        /\ transcripts[1] = req[r].savedTranscript[1]
        /\ transcripts[1].user_id = 1
        /\ req[r].responses[1].body.data.transcriptId = <<transcripts[1].id>>

-----------------------------------------------------------------------------
(* User creation *)

\* C14: in every reachable state each existing user has exactly one ledger
\* entry: the user row and its free ledger row come into being together, so
\* no state, between the two writes or after a failed ledger creation, has
\* a user without a ledger row.
C14_OneLedgerPerUser ==
    \A i \in 1..Len(users) : users[i].id \in DOMAIN subs

-----------------------------------------------------------------------------
(* Ledger properties: reads, missing rows and overdraft *)

\* C15: checkBalance(userId, requiredMinutes) is a pure read: no step of it
\* changes the subscriptions table; it returns currentBalance equal to the
\* stored balance and hasBalance true exactly when the stored balance is >=
\* requiredMinutes, and throws when the user has no ledger row.
C15_CheckBalancePure ==
    [][\A p \in Procs :
         LET u == svc[p].userId
             m == svc[p].minutes
         IN  /\ Steps(p, "checkBalance") => subs' = subs
             /\ ( /\ svc[p].op = "checkBalance"
                  /\ svc[p].pc = "find"
                  /\ svc'[p].pc # "find" )
                => IF u \in DOMAIN subs
                   THEN /\ svc'[p].pc = "returned"
                        /\ svc'[p].result =
                              <<[hasBalance |-> subs[u].balance >= m,
                                 currentBalance |-> subs[u].balance]>>
                   ELSE /\ svc'[p].pc = "threw"
                        /\ svc'[p].result = Null
      ]_vars

\* One call found the balance equal to the minutes required, another was
\* addressed to a user with no ledger row.
C15_Witness ==
    \E p, q \in Procs :
        /\ svc[p].op = "checkBalance" /\ svc[p].pc = "returned"
        /\ svc[p].result = <<[hasBalance |-> TRUE,
                              currentBalance |-> svc[p].minutes]>>
        /\ svc[q].op = "checkBalance" /\ svc[q].pc = "threw"
        /\ svc[q].userId \notin DOMAIN subs
        /\ subs = subs0

\* C16: a debit or a credit addressed to a user that has no ledger row
\* throws, and changes no ledger row of any user.
C16_MissingLedgerFails ==
    [][\A p \in Procs :
         ( /\ svc[p].op \in {"deductBalance", "addCredits"}
           /\ svc[p].pc = "query"
           /\ svc'[p].pc # "query"
           /\ svc[p].userId \notin DOMAIN subs )
         => /\ svc'[p].pc = "threw"
            /\ svc'[p].result = Null
            /\ subs' = subs
      ]_vars

\* A debit and a credit on a user without a ledger row have both thrown
C16_Witness ==
    \E p, q \in Procs :
        /\ svc[p].op = "deductBalance" /\ svc[p].pc = "threw"
        /\ svc[q].op = "addCredits" /\ svc[q].pc = "threw"
        /\ svc[p].userId \notin DOMAIN subs
        /\ svc[q].userId \notin DOMAIN subs
        /\ subs = subs0

\* C17: debit enforces no floor: a debit of m minutes on a ledger row with
\* balance B always returns and leaves exactly B - m in the row, whatever B
\* is, so that a negative balance is reached whenever m > B.
C17_DebitHasNoFloor ==
    [][\A p \in Procs :
         LET u == svc[p].userId
             m == svc[p].minutes
         IN  ( /\ svc[p].op = "deductBalance"
               /\ svc[p].pc = "query"
               /\ svc'[p].pc # "query"
               /\ u \in DOMAIN subs )
             => /\ svc'[p].pc = "returned"
                /\ subs' = [subs EXCEPT ![u].balance = subs[u].balance - m]
                /\ svc'[p].result = <<subs'[u]>>
      ]_vars

\* A debit larger than the balance has returned and the balance is negative
C17_Witness ==
    \E p \in Procs :
        LET u == svc[p].userId IN
        /\ svc[p].op = "deductBalance" /\ svc[p].pc = "returned"
        /\ \A q \in Procs \ {p} : svc[q].pc = "idle"
        /\ svc[p].minutes > subs0[u].balance
        /\ subs[u].balance = subs0[u].balance - svc[p].minutes
        /\ subs[u].balance < 0
        /\ svc[p].result[1].balance < 0

-----------------------------------------------------------------------------
(* Pipeline properties: the ledger and retries *)

\* C18: no request of the pipeline, whatever its outcome, calls checkBalance
\* or a debit or any other ledger operation, and no step of a request
\* changes a ledger row's balance, tier or expiry.
C18_PipelineLeavesLedger ==
    /\ [](/\ \A r \in Reqs : \A i \in 1..Len(req[r].calls) :
                 req[r].calls[i].fn
                    \in {"transcribe", "processText", "Transcript.create"}
          /\ \A p \in Procs : svc[p] = IdleCall
          /\ subs = subs0)
    /\ [][req' # req => (subs' = subs /\ svc' = svc)]_vars

\* A request has ended in the internal-error outcome, after its
\* transcription succeeded and its rewriter threw, and the ledger is as it
\* was.
C18_Witness ==
    \E r \in Reqs :
        /\ req[r].pc = "sent"
        /\ req[r].caught # Null
        /\ req[r].transcriptionResult # Null
        /\ req[r].calls[Len(req[r].calls)].fn = "processText"
        /\ req[r].responses[1].body.message = "Internal server error during processing"
        /\ \A p \in Procs : svc[p] = IdleCall
        /\ subs = subs0

\* C19: within one request transcribe and processText are each called at
\* most once: after a failed transcription the request has ended with its
\* one transcribe call, and after a failed rewrite it goes on to the save
\* with its one processText call; neither is called again.
C19_NoRetry ==
    \A r \in Reqs :
        LET c == req[r] IN
        /\ Cardinality(CallsOf(c, "transcribe")) <= 1
        /\ Cardinality(CallsOf(c, "processText")) <= 1
        /\ TranscriptionFailed(c) =>
              /\ c.pc = "sent"
              /\ Cardinality(CallsOf(c, "transcribe")) = 1
              /\ CallsOf(c, "processText") = {}
        /\ CorrectionFailed(c) =>
              /\ c.pc \in {"create", "sent"}
              /\ Cardinality(CallsOf(c, "transcribe")) = 1
              /\ Cardinality(CallsOf(c, "processText")) = 1

\* A transcription that timed out was answered after its one call
C19_Witness ==
    \E r \in Reqs :
        /\ TranscriptionFailed(req[r])
        /\ req[r].transcriptionResult[1].error =
              <<"transcription request timed out. Please try again.">>
        /\ req[r].pc = "sent"
        /\ Len(req[r].calls) = 1
        /\ req[r].calls[1].fn = "transcribe"
        /\ Len(req[r].responses) = 1

-----------------------------------------------------------------------------
(* Adapter properties *)

\* The adapter's call has returned after its backend call rejected
BackendFailed ==
    /\ adapter.pc = "settled"
    /\ adapter.outcome[1].error # Null

\* The error has a structured API error body
HasApiBody(e) == e.response # Null /\ e.response[1].error # Null

\* The class of a backend error by its code, the error's own or else the
\* one in its API error body, or by 'timeout' in its message
ClassOf(e) ==
    LET code == IF e.code # Null THEN e.code
                ELSE IF HasApiBody(e) THEN e.response[1].error[1].code
                ELSE Null
    IN  IF code = <<"insufficient_quota">> THEN "quota-exceeded"
        ELSE IF code = <<"rate_limit_exceeded">> THEN "rate-limited"
        ELSE IF code = <<"invalid_api_key">> THEN "invalid-credentials"
        ELSE IF e.message = <<"Request timeout after 30000ms">> THEN "timeout"
        ELSE "unknown"

\* The text of an error: its message, where it has a non-empty one
TextOf(e) == IF e.message = Null \/ e.message = <<"">> THEN Null ELSE e.message

\* The result is a failure result of the operation with an error message
FailureResult(r, op) ==
    /\ ~r.success
    /\ r.error # Null
    /\ r.error # <<"">>
    /\ IF op = "transcription"
       THEN r.transcript = Null /\ r.duration = Null
       ELSE /\ r.processedText = Null
            /\ r.originalText = adapter.input[1].rawText

\* C20 as stated: for every error the backend call rejects with, transcribe
\* and processText return a failure result with an error message;
\* quota-exceeded, rate-limited, invalid-credentials and timeout errors
\* each give their fixed message, and every other error gives the generic
\* unknown-error message, or the error's own text where it has one.
C20_EveryClassHasFixedMessage ==
    BackendFailed =>
        LET e == adapter.outcome[1].error[1]
            r == adapter.result[1]
            op == adapter.op
        IN  /\ FailureResult(r, op)
            /\ r.error[1] =
                 CASE ClassOf(e) = "quota-exceeded" ->
                        "OpenAI API quota exceeded. Please check your billing."
                   [] ClassOf(e) = "rate-limited" ->
                        "OpenAI API rate limit exceeded. Please try again later."
                   [] ClassOf(e) = "invalid-credentials" ->
                        "Invalid OpenAI API key configuration."
                   [] ClassOf(e) = "timeout" ->
                        op \o " request timed out. Please try again."
                   [] OTHER ->
                        IF TextOf(e) # Null THEN TextOf(e)[1]
                        ELSE "Unknown " \o op \o " error occurred."

\* C20, amended: for every error object the backend call rejects with,
\* transcribe and processText return a failure result with a non-empty
\* error message.  An error with a structured API error body gives that
\* body's message, or 'OpenAI API error' where it has none, whatever its
\* code.  Without such a body, the codes insufficient_quota,
\* rate_limit_exceeded and invalid_api_key give their fixed message; failing
\* those a message containing 'timeout' gives the timed-out message; failing
\* that the error's own message is returned as it is, and the generic
\* unknown-error message only where the error has no message.
C20_NormalisationTotal ==
    BackendFailed =>
        LET e == adapter.outcome[1].error[1]
            r == adapter.result[1]
            op == adapter.op
            body == e.response[1].error[1]
        IN  /\ FailureResult(r, op)
            /\ HasApiBody(e) =>
                  r.error[1] = IF body.message # Null /\ body.message # <<"">>
                               THEN body.message[1]
                               ELSE "OpenAI API error"
            /\ ~HasApiBody(e) =>
                  /\ e.code = <<"insufficient_quota">> => r.error[1] =
                        "OpenAI API quota exceeded. Please check your billing."
                  /\ e.code = <<"rate_limit_exceeded">> => r.error[1] =
                        "OpenAI API rate limit exceeded. Please try again later."
                  /\ e.code = <<"invalid_api_key">> => r.error[1] =
                        "Invalid OpenAI API key configuration."
                  /\ e.code \in {Null, <<"server_error">>} =>
                        r.error[1] =
                          IF e.message = <<"Request timeout after 30000ms">>
                          THEN op \o " request timed out. Please try again."
                          ELSE IF TextOf(e) # Null THEN TextOf(e)[1]
                          ELSE "Unknown " \o op \o " error occurred."

\* processText has returned the message of the API error body of an error
\* whose code is insufficient_quota and whose message has 'timeout' in it
C20_Witness ==
    /\ BackendFailed
    /\ adapter.op = "text processing"
    /\ HasApiBody(adapter.outcome[1].error[1])
    /\ adapter.outcome[1].error[1].code = <<"insufficient_quota">>
    /\ adapter.outcome[1].error[1].message = <<"Request timeout after 30000ms">>
    /\ ~adapter.result[1].success
    /\ adapter.result[1].error = <<"Rate limit exceeded">>

\* The adapter's processText call has returned after the backend replied
BackendReplied ==
    /\ adapter.pc = "settled"
    /\ adapter.op = "text processing"
    /\ adapter.outcome[1].error = Null

\* C21: when the backend reply is a JSON object whose corrected field is
\* absent or empty, processText returns success: true with processedText
\* equal to the input raw text.
C21_MissingCorrectedFallsBack ==
    ( /\ BackendReplied
      /\ adapter.outcome[1].content \in {<<"{}">>, <<"{\"corrected\":\"\"}">>} )
    => LET r == adapter.result[1] IN
       /\ r.success
       /\ r.processedText = <<adapter.input[1].rawText>>
       /\ r.originalText = adapter.input[1].rawText
       /\ r.error = Null

C21_Witness ==
    /\ BackendReplied
    /\ adapter.outcome[1].content = <<"{\"corrected\":\"\"}">>
    /\ adapter.input[1].prompt = <<"Make this sound professional">>
    /\ adapter.result[1].success
    /\ adapter.result[1].processedText = <<"um so today we're gonna talk about">>

\* C22: when the backend reply has no content, or content that is not
\* parseable JSON, processText returns a failure result: success false, an
\* error message, originalText the input raw text, and neither processedText
\* nor promptUsed.
C22_UnusableReplyFails ==
    ( /\ BackendReplied
      /\ adapter.outcome[1].content
            \in {Null, <<"">>, <<"So, today we are going to talk about">>} )
    => LET r == adapter.result[1] IN
       /\ ~r.success
       /\ r.originalText = adapter.input[1].rawText
       /\ r.processedText = Null
       /\ r.promptUsed = Null
       /\ r.error # Null
       /\ r.error # <<"">>
       /\ adapter.outcome[1].content \in {Null, <<"">>}
             => r.error = <<"No response content from OpenAI">>
       /\ adapter.outcome[1].content \notin {Null, <<"">>}
             => \E runtime \in Runtimes :
                   r.error = <<SyntaxErrorMessage(runtime)>>

\* A reply that is text, not JSON, has come back as a failure naming JSON
C22_Witness ==
    /\ BackendReplied
    /\ adapter.outcome[1].content = <<"So, today we are going to talk about">>
    /\ ~adapter.result[1].success
    /\ adapter.result[1].error =
          <<"Unexpected token 'S', \"So, today \"... is not valid JSON">>
    /\ adapter.result[1].originalText = "um so today we're gonna talk about"
    /\ adapter.result[1].processedText = Null

\* C23: when a stage raises an exception instead of returning a result, the
\* request ends with exactly one response, 500 {success: false, message:
\* 'Internal server error during processing'}; no success or degraded
\* response is sent, and nothing is persisted for the request.
C23_ExceptionGivesOne500 ==
    \A r \in Reqs :
        LET c == req[r] IN
        c.caught # Null =>
            /\ c.pc = "sent"
            /\ Len(c.responses) = 1
            /\ c.responses[1].status = 500
            /\ c.responses[1].body.success = FALSE
            /\ c.responses[1].body.message = "Internal server error during processing"
            /\ c.responses[1].body.error
                  \in {<<c.caught[1].message>>, <<"Something went wrong">>}
            /\ c.savedTranscript = Null
            /\ \A i \in 1..Len(c.calls) : c.calls[i].fn # "Transcript.create"

\* The rewriter threw after a successful transcription and the request was
\* answered 500
C23_Witness ==
    \E r \in Reqs :
        /\ req[r].caught # Null
        /\ TranscriptionSucceeded(req[r])
        /\ Len(req[r].calls) = 2
        /\ req[r].responses[1].status = 500
        /\ req[r].responses[1].body.error = <<"Something went wrong">>

\* C24: once the pipeline has written a Transcript, no later operation
\* changes its text_raw: for as long as the row the pipeline saved is in the
\* table (ids are never handed out twice), its text_raw is the text_raw the
\* pipeline wrote.
C24_TextRawImmutable ==
    \A r \in Reqs :
        req[r].savedTranscript # Null =>
            \A i \in 1..Len(transcripts) :
                transcripts[i].id = req[r].savedTranscript[1].id
                    => transcripts[i].text_raw = req[r].savedTranscript[1].text_raw

\* C25: when the rewrite fails, the prompt_used handed to persistence (and
\* saved) is the caller's style guidance when the request carried a non-empty
\* one and the literal 'default' otherwise; it is never the adapter's default
\* prompt text.
C25_FailedRewritePromptUsed ==
    \A r \in Reqs :
        LET c == req[r] IN
        CorrectionFailed(c) =>
            /\ c.transcriptData # Null
            /\ c.body.prompt \notin {Null, <<"">>}
                  => c.transcriptData[1].prompt_used = c.body.prompt
            /\ c.body.prompt \in {Null, <<"">>}
                  => c.transcriptData[1].prompt_used = <<"default">>
            /\ c.transcriptData[1].prompt_used # <<defaultPrompt>>
            /\ c.savedTranscript # Null
                  => c.savedTranscript[1].prompt_used = c.transcriptData[1].prompt_used

\* A request with an empty guidance whose rewrite failed saved 'default'
C25_Witness ==
    \E r \in Reqs :
        /\ CorrectionFailed(req[r])
        /\ req[r].body.prompt = <<"">>
        /\ req[r].savedTranscript # Null
        /\ req[r].savedTranscript[1].prompt_used = <<"default">>
        /\ \E i \in 1..Len(transcripts) : transcripts[i].prompt_used = <<"default">>

\* The rules of the classification, in their order: rule k applies to the
\* error e, and gives this message
RuleApplies(e, k) ==
    CASE k = 1 -> HasApiBody(e)
      [] k = 2 -> e.code = <<"insufficient_quota">>
      [] k = 3 -> e.code = <<"rate_limit_exceeded">>
      [] k = 4 -> e.code = <<"invalid_api_key">>
      [] k = 5 -> e.message = <<"Request timeout after 30000ms">>
      [] k = 6 -> TextOf(e) # Null
      [] OTHER -> TRUE

RuleMessage(e, op, k) ==
    CASE k = 1 -> IF e.response[1].error[1].message \in {Null, <<"">>}
                  THEN "OpenAI API error"
                  ELSE e.response[1].error[1].message[1]
      [] k = 2 -> "OpenAI API quota exceeded. Please check your billing."
      [] k = 3 -> "OpenAI API rate limit exceeded. Please try again later."
      [] k = 4 -> "Invalid OpenAI API key configuration."
      [] k = 5 -> op \o " request timed out. Please try again."
      [] k = 6 -> e.message[1]
      [] OTHER -> "Unknown " \o op \o " error occurred."

\* C26: handleError classifies by a fixed precedence: the message it returns
\* is the one of the first rule that applies, in the order API error body
\* (the body's message, whatever the code), insufficient_quota,
\* rate_limit_exceeded, invalid_api_key, 'timeout' in the message, the raw
\* message, the generic unknown message.
C26_FixedPrecedence ==
    BackendFailed =>
        LET e == adapter.outcome[1].error[1]
            first == CHOOSE k \in 1..7 :
                        /\ RuleApplies(e, k)
                        /\ \A j \in 1..(k - 1) : ~RuleApplies(e, j)
        IN  adapter.result[1].error = <<RuleMessage(e, adapter.op, first)>>

\* transcribe has answered an error with no API error body, code
\* rate_limit_exceeded and 'timeout' in its message with the rate-limit
\* message
C26_Witness ==
    /\ BackendFailed
    /\ adapter.op = "transcription"
    /\ ~HasApiBody(adapter.outcome[1].error[1])
    /\ adapter.outcome[1].error[1].code = <<"rate_limit_exceeded">>
    /\ adapter.outcome[1].error[1].message = <<"Request timeout after 30000ms">>
    /\ adapter.result[1].error =
          <<"OpenAI API rate limit exceeded. Please try again later.">>

\* The stages in the order of the handler
StageOrder == <<"transcribe", "processText", "Transcript.create">>

\* C27: within one request the stages run in a fixed order: transcribe
\* first; processText only after transcribe returned a success, with exactly
\* its transcript as rawText and the caller's guidance as prompt; the
\* persistence attempt only after the rewriter returned; and exactly one
\* response, sent after the persistence attempt has finished (or at the
\* stage that ended the request early).
C27_StageOrder ==
    /\ [](\A r \in Reqs :
            LET c == req[r] IN
            /\ Len(c.calls) <= 3
            /\ \A i \in 1..Len(c.calls) : c.calls[i].fn = StageOrder[i]
            /\ Len(c.calls) >= 2 =>
                  /\ TranscriptionSucceeded(c)
                  /\ c.calls[2].rawText = c.transcriptionResult[1].transcript[1]
                  /\ c.calls[2].prompt = c.body.prompt
            /\ Len(c.calls) >= 3 =>
                  /\ c.correctionResult # Null
                  /\ c.calls[3].data.text_raw = <<c.calls[2].rawText>>
            /\ c.pc \in {"idle", "transcribe", "processText", "create"}
                  => c.responses = <<>>
            /\ c.pc = "sent" => Len(c.responses) = 1
            /\ (c.pc = "sent" /\ c.responses[1].status = 200)
                  => Len(c.calls) = 3)
    /\ [][\A r \in Reqs :
            /\ Len(req'[r].calls) \in {Len(req[r].calls), Len(req[r].calls) + 1}
            /\ \A i \in 1..Len(req[r].calls) : req'[r].calls[i] = req[r].calls[i]
            /\ (Len(req[r].calls) = 3 /\ req'[r].responses # req[r].responses)
                  => /\ req[r].pc = "create"
                     /\ req'[r].calls = req[r].calls
                     /\ req'[r].pc = "sent"]_vars

\* A request went through the three stages with the caller's guidance and was
\* answered once, after its Transcript was saved
C27_Witness ==
    \E r \in Reqs :
        /\ req[r].pc = "sent"
        /\ Len(req[r].calls) = 3
        /\ req[r].calls[2].prompt = <<"Make this sound professional">>
        /\ req[r].calls[2].rawText = "um so today we're gonna talk about"
        /\ req[r].savedTranscript # Null
        /\ Len(req[r].responses) = 1
        /\ req[r].responses[1].body.data.transcriptId = <<1>>

-----------------------------------------------------------------------------
(* Ledger properties: repeated replenish, upgrade and downgrade *)

\* C28: when the only calls on a user's ledger are replenish calls, however
\* many and however interleaved, and the ledger was expired when they began,
\* then once all have finished within that month the allowance has been
\* granted exactly once: the balance is the starting balance plus one
\* allowance of the tier, and the expiry is the first day of the next month.
C28_ConcurrentReplenishOnce ==
    \A u \in DOMAIN subs :
        ( /\ Started # {}
          /\ \A p \in Started : /\ svc[p].op = "resetMonthlyBalance"
                                /\ svc[p].userId = u
                                /\ Finished(p)
          /\ subs0[u].expiry_date <= 0
          /\ today < DaysPerMonth )
        => /\ subs[u].balance = subs0[u].balance + monthlyAllowance(subs0[u].status)
           /\ subs[u].expiry_date = DaysPerMonth
           /\ subs[u].status = subs0[u].status

\* Two replenish calls both read the expired row before either wrote, both
\* ran their update, and the balance holds one allowance
C28_Witness ==
    \E p, q \in Procs :
        /\ p # q
        /\ Started = {p, q}
        /\ svc[p].op = "resetMonthlyBalance" /\ svc[p].pc = "returned"
        /\ svc[q].op = "resetMonthlyBalance" /\ svc[q].pc = "returned"
        /\ svc[p].userId = svc[q].userId
        /\ svc[p].data # NoData /\ svc[q].data # NoData
        /\ svc[p].subscription = svc[q].subscription
        /\ today < DaysPerMonth
        /\ subs[svc[p].userId].balance =
              subs0[svc[p].userId].balance
                 + monthlyAllowance(subs0[svc[p].userId].status)

\* C29: upgradeToPremium does not look at the current tier: every call on an
\* existing ledger, premium ones included, adds 1000 to the balance, sets the
\* tier to premium and moves the expiry to the first day of next month; k
\* upgrade calls one after the other leave the balance at B + 1000*k.
C29_UpgradeIgnoresTier ==
    /\ [](\A u \in DOMAIN subs :
            ( /\ \A p \in Started : /\ svc[p].op = "upgradeToPremium"
                                    /\ svc[p].userId = u
                                    /\ Finished(p) )
            => subs[u].balance = subs0[u].balance + 1000 * Cardinality(Started))
    /\ [][\A p \in Procs :
            LET u == svc[p].userId IN
            /\ ( /\ Moves(p, "upgradeToPremium", "found", "update")
                 /\ subs[u].status = "premium" )
               => FirstDayOfNextMonth(svc'[p].data.expiry_date[1], today)
            /\ ( /\ Moves(p, "upgradeToPremium", "update", "returned")
                 /\ u \in DOMAIN subs )
               => /\ subs'[u].balance = subs[u].balance + 1000
                  /\ subs'[u].status = "premium"
                  /\ subs'[u].expiry_date = svc[p].data.expiry_date[1]]_vars

\* Two upgrades ran one after the other on a ledger that was premium from
\* the start, and the balance holds two allowances
C29_Witness ==
    \E p, q \in Procs :
        /\ p # q
        /\ Started = {p, q}
        /\ svc[p].op = "upgradeToPremium" /\ svc[p].pc = "returned"
        /\ svc[q].op = "upgradeToPremium" /\ svc[q].pc = "returned"
        /\ svc[p].userId = svc[q].userId
        /\ subs0[svc[p].userId].status = "premium"
        /\ svc[q].subscription = svc[p].result
        /\ subs[svc[p].userId].balance = subs0[svc[p].userId].balance + 2000

\* C30: a downgrade on a ledger whose expiry has passed moves the expiry to
\* the first day of next month, so a replenish call that follows it in the
\* same month finds the ledger unexpired and does nothing: the allowance of
\* the elapsed period is not granted and the balance stays as it was.
C30_DowngradeCancelsReplenish ==
    \A p, q \in Procs :
        LET u == svc[p].userId IN
        ( /\ Started = {p, q}
          /\ svc[p].op = "downgradeToFree" /\ svc[p].pc = "returned"
          /\ svc[q].op = "resetMonthlyBalance" /\ Finished(q)
          /\ svc[q].userId = u
          /\ svc[q].subscription = svc[p].result
          /\ subs0[u].expiry_date <= 0
          /\ today < DaysPerMonth )
        => /\ svc[q].pc = "returned"
           /\ svc[q].data = NoData
           /\ subs[u].balance = subs0[u].balance
           /\ subs[u].status = "free"
           /\ subs[u].expiry_date = DaysPerMonth

\* A premium ledger that had expired was downgraded and then replenished:
\* the replenish returned without an update and the 1000 minutes that were
\* due are not in the balance
C30_Witness ==
    \E p, q \in Procs :
        /\ Started = {p, q}
        /\ svc[p].op = "downgradeToFree" /\ svc[p].pc = "returned"
        /\ svc[q].op = "resetMonthlyBalance" /\ svc[q].pc = "returned"
        /\ svc[q].userId = svc[p].userId
        /\ svc[q].subscription = svc[p].result
        /\ subs0[svc[p].userId].status = "premium"
        /\ subs0[svc[p].userId].expiry_date <= 0
        /\ svc[q].data = NoData
        /\ subs[svc[p].userId].balance = subs0[svc[p].userId].balance

====
